---- MODULE Spec2Model ----
(***************************************************************************)
(* A model of one node of the pythonBC proof-of-work blockchain:           *)
(* blockchain_types/blockchain.py (chain, mempool, miner, peers),          *)
(* blockchain_types/block.py, transaction.py, transaction_merkle_tree.py,  *)
(* tools/security.py and the request handler of start_blockchain.py.       *)
(*                                                                         *)
(* Digests are modelled by an injective constructor (HashString), the      *)
(* textual encodings by the tuple of the encoded fields, amounts by        *)
(* integers.  The number of leading '0' characters of a block's seal       *)
(* digest is a function of the sealed content (LeadingZeros).              *)
(***************************************************************************)
EXTENDS Integers, Sequences, FiniteSets, TLC

VARIABLES
    chain,       \* Blockchain.chain: sequence of Block records
    pending,     \* Blockchain.pending_transactions
    difficulty,  \* Blockchain.difficulty
    mining,      \* Blockchain.mining
    peers,       \* Blockchain.network_nodes
    now,         \* the wall clock read by InstantMaker.get_now_long
    op,          \* the operation that ran last
    why,         \* the check that decided it ("accepted" when none rejected)
    ret,         \* what it returned: "True", "False", "None" or "raise"
    resp,        \* the reply line the handler sent ("" when it sent none)
    outbox,      \* the broadcast_network_message calls the operation made
    mpc,         \* where the miner (main thread) is inside mining_loop
    new_block,   \* mine_block's local new_block
    hpc,         \* where each connection-handler thread is
    harg,        \* each handler's local new_block or transaction
    bpc,         \* where broadcast_network_message is
    bidx,        \* the position of its loop in network_nodes
    nodes_to_remove, \* its local nodes_to_remove
    bstart,      \* network_nodes as it was when the broadcast started
    netlog,      \* what happened on the network during the broadcast
    sockets      \* the nodes whose socket was opened and never closed

vars == <<chain, pending, difficulty, mining, peers, now, op, why, ret, resp,
          outbox, mpc, new_block, hpc, harg,
          bpc, bidx, nodes_to_remove, bstart, netlog, sockets>>

\* The state of a broadcast that is told peer by peer, and the sockets.
broadcasting == <<bpc, bidx, nodes_to_remove, bstart, netlog, sockets>>

\* The locals of the threads.
threads == <<mpc, new_block, hpc, harg, broadcasting>>

----------------------------------------------------------------------------
(* Bounds of the model *)

MaxChain == 3
MaxPending == 2
MaxTime == 1
MaxPeers == 1
MaxHandlers == 2
MaxDifficulty == 3

\* The retarget window of the runs in which chains stay short, in place of
\* ADJUST_DIFFICULTY_IN_EVERY blocks.
SmallWindow == 2

(* Program constants: config/blockchain_config.py *)

ADJUST_DIFFICULTY_IN_EVERY == 10
INIT_DIFFICULTY == 1
BLOCK_TIME_IN_EVERY == 30
MINING_REWARDS == 10
MAX_TRANSACTIONS_IN_BLOCK == 32

----------------------------------------------------------------------------
(* Accounts, digests, signatures *)

\* Wallet.get_account of this node's wallet, and the account of a peer.
WalletAccount == "A"
PeerAccount == "B"

\* HashMaker.hash_string: an injective digest.
HashString(data) == <<"H", data>>

\* Wallet.sign: the signature of `account` over `data`.
Sign(account, data) == <<"sig", account, data>>

\* A signature whose length is not the one the sender's algorithm expects.
ShortSignature == <<"short">>

\* Security.validate_signature_format
ValidateSignatureFormat(address, signature) == signature # ShortSignature

\* Security.is_signature_valid
IsSignatureValid(address, data, signature) == signature = Sign(address, data)

----------------------------------------------------------------------------
(* Transaction *)

\* Transaction.to_base64_with_content_only
TxToBase64WithContentOnly(t) ==
    <<t.sender, t.receiver, t.amount, t.fee, t.timestamp, t.message>>

\* Transaction.to_base64
TxToBase64(t) ==
    <<t.sender, t.receiver, t.amount, t.fee, t.timestamp, t.message, t.signature>>

\* A digest that leaves the signature out.
TxToHashMutant(t) == HashString(TxToBase64WithContentOnly(t))

\* Transaction.to_hash
TxToHash(t) == HashString(TxToBase64(t))

\* Transaction.__init__
Transaction(sender, receiver, amount, fee, signature) ==
    [sender |-> sender, receiver |-> receiver, amount |-> amount, fee |-> fee,
     timestamp |-> 0, message |-> "", signature |-> signature]

\* A transaction signed by its sender's wallet (client_blockchain.py).
SignedTransaction(sender, receiver, amount, fee) ==
    LET t == Transaction(sender, receiver, amount, fee, ShortSignature)
    IN  [t EXCEPT !.signature = Sign(sender, TxToBase64WithContentOnly(t))]

\* The same content carrying a signature made with another key.
ForgedTransaction(sender, receiver, amount, fee) ==
    LET t == Transaction(sender, receiver, amount, fee, ShortSignature)
    IN  [t EXCEPT !.signature = Sign(receiver, TxToBase64WithContentOnly(t))]

----------------------------------------------------------------------------
(* Merkle tree *)

\* A level on which an odd trailing node is paired with the first node.
MerkleNextLevelMutant(nodes) ==
    [i \in 1..((Len(nodes) + 1) \div 2) |->
        LET left == nodes[2 * i - 1]
            right == IF 2 * i <= Len(nodes) THEN nodes[2 * i] ELSE nodes[1]
        IN  HashString(<<left, right>>)]

\* One level of TransactionMerkleTree._build_tree: adjacent nodes are paired,
\* an odd trailing node is paired with itself.
MerkleNextLevel(nodes) ==
    [i \in 1..((Len(nodes) + 1) \div 2) |->
        LET left == nodes[2 * i - 1]
            right == IF 2 * i <= Len(nodes) THEN nodes[2 * i] ELSE left
        IN  HashString(<<left, right>>)]

RECURSIVE MerkleBuildTree(_)
MerkleBuildTree(nodes) ==
    IF Len(nodes) > 1 THEN MerkleBuildTree(MerkleNextLevel(nodes)) ELSE nodes

\* TransactionMerkleTree(transactions).get_merkle_root()
GetMerkleRoot(transactions) ==
    IF transactions = <<>>
    THEN HashString(<<>>)
    ELSE MerkleBuildTree([i \in 1..Len(transactions) |-> TxToHash(transactions[i])])[1]

----------------------------------------------------------------------------
(* Block *)

\* previous_hash of the genesis block: the literal "0".
GenesisPreviousHash == <<"0">>

\* The value of Block.merkle_tree when the attribute was never assigned.
NoMerkleTree == <<>>

\* Block.to_base64_with_content_only
BlockToBase64WithContentOnly(b) ==
    <<b.previous_hash, b.difficulty, b.nonce, b.timestamp,
      [i \in 1..Len(b.transactions) |-> TxToBase64(b.transactions[i])],
      b.merkle_tree, b.miner, b.miner_rewards>>

\* Block.to_hash_with_content_only: the seal digest
BlockToHashWithContentOnly(b) == HashString(BlockToBase64WithContentOnly(b))

\* The number of leading '0' characters of a digest.
LeadingZeros(hash) == IF hash = GenesisPreviousHash THEN 1 ELSE hash[2][3]

\* str.startswith("0" * n)
StartsWithZeros(hash, n) == LeadingZeros(hash) >= n

\* Block.add_transaction
AddTransaction(transactions, t) ==
    IF \E i \in 1..Len(transactions) : TxToHash(transactions[i]) = TxToHash(t)
    THEN transactions
    ELSE Append(transactions, t)

RECURSIVE AddAllTransactions(_, _)
AddAllTransactions(transactions, more) ==
    IF more = <<>> THEN transactions
    ELSE AddAllTransactions(AddTransaction(transactions, Head(more)), Tail(more))

\* Block.__init__ without b64_encoded_block: every attribute is assigned.
Block(previous_hash, hash, bdifficulty, nonce, timestamp, transactions, miner, miner_rewards) ==
    [previous_hash |-> previous_hash, hash |-> hash, difficulty |-> bdifficulty,
     nonce |-> nonce, timestamp |-> timestamp, transactions |-> transactions,
     merkle_tree |-> GetMerkleRoot(transactions),
     miner |-> miner, miner_rewards |-> miner_rewards]

\* Block.from_base64 of the encoding of wire block w: the transactions are
\* added one by one by add_transaction, which alone assigns merkle_tree.
BlockFromBase64(w) ==
    LET txs == AddAllTransactions(<<>>, w.transactions)
    IN  [previous_hash |-> w.previous_hash, hash |-> w.hash, difficulty |-> w.difficulty,
         nonce |-> w.nonce, timestamp |-> w.timestamp, transactions |-> txs,
         merkle_tree |-> IF txs = <<>> THEN NoMerkleTree ELSE GetMerkleRoot(txs),
         miner |-> w.miner, miner_rewards |-> w.miner_rewards]

----------------------------------------------------------------------------
(* Chain and mempool core *)

Last(seq) == seq[Len(seq)]

\* The fee credit to the miner left out.
TransactionsBalanceMutant(transactions, account, is_miner) ==
    LET RECURSIVE Rest(_)
        Rest(txs) ==
            IF txs = <<>> THEN 0
            ELSE - (IF Head(txs).sender = account
                    THEN Head(txs).fee + Head(txs).amount ELSE 0)
                 + (IF Head(txs).receiver = account THEN Head(txs).amount ELSE 0)
                 + Rest(Tail(txs))
    IN  Rest(transactions)

\* The effect of the transactions of one block on `account`
\* (inner loop of Blockchain.get_account_balance).
RECURSIVE TransactionsBalance(_, _, _)
TransactionsBalance(transactions, account, is_miner) ==
    IF transactions = <<>> THEN 0
    ELSE LET t == Head(transactions)
         IN  (IF is_miner THEN t.fee ELSE 0)
             - (IF t.sender = account THEN t.fee + t.amount ELSE 0)
             + (IF t.receiver = account THEN t.amount ELSE 0)
             + TransactionsBalance(Tail(transactions), account, is_miner)

\* The configured reward credited in place of the block's miner_rewards.
GetAccountBalanceMutant(ch, account) ==
    LET RECURSIVE Rest(_)
        Rest(blocks) ==
            IF blocks = <<>> THEN 0
            ELSE (IF Head(blocks).miner = account THEN MINING_REWARDS ELSE 0)
                 + TransactionsBalance(Head(blocks).transactions, account,
                                       Head(blocks).miner = account)
                 + Rest(Tail(blocks))
    IN  Rest(ch)

\* Blockchain.get_account_balance
RECURSIVE GetAccountBalance(_, _)
GetAccountBalance(ch, account) ==
    IF ch = <<>> THEN 0
    ELSE LET b == Head(ch)
             is_miner == b.miner = account
         IN  (IF is_miner THEN b.miner_rewards ELSE 0)
             + TransactionsBalance(b.transactions, account, is_miner)
             + GetAccountBalance(Tail(ch), account)

\* Whether a transaction with the digest of t is in a list / in a chain block.
InTransactions(transactions, t) ==
    \E i \in 1..Len(transactions) : TxToHash(transactions[i]) = TxToHash(t)

InChain(ch, t) == \E i \in 1..Len(ch) : InTransactions(ch[i].transactions, t)

\* The balance check with >= in place of >.
InsufficientFundsMutant(ch, t) == t.fee + t.amount >= GetAccountBalance(ch, t.sender)
\* The balance check of Blockchain.receive_transaction (lines 245-250).
InsufficientFunds(ch, t) == t.fee + t.amount > GetAccountBalance(ch, t.sender)

\* The checks of Blockchain.receive_transaction, in the order of the code.
ReceiveTransactionVerdict(ch, pend, t) ==
    IF ~ValidateSignatureFormat(t.sender, t.signature) THEN "bad_format"
    ELSE IF ~IsSignatureValid(t.sender, TxToBase64WithContentOnly(t), t.signature)
         THEN "bad_signature"
    ELSE IF InsufficientFunds(ch, t) THEN "insufficient"
    ELSE IF InTransactions(pend, t) THEN "in_pending"
    ELSE IF InChain(ch, t) THEN "in_chain"
    ELSE "accepted"

\* True when some transaction of the block fails Security.is_signature_valid.
HasTamperedSignature(b) ==
    \E i \in 1..Len(b.transactions) :
        LET t == b.transactions[i]
        IN  ~IsSignatureValid(t.sender, TxToBase64WithContentOnly(t), t.signature)

\* The link check left out.
NotTipLinkedMutant(ch, b) == FALSE

\* The link check of Blockchain.receive_block (line 161).
NotTipLinked(ch, b) == b.previous_hash # Last(ch).hash

\* The checks of Blockchain.receive_block, in the order of the code: the
\* first one that fails, "accepted" when none does.  "no_tip" is the read of
\* the tip of an empty chain (IndexError); "log_raise" is line 167, which logs
\* the block with to_string_with_content_only and so reads merkle_tree.
ReceiveBlockVerdict(ch, diff, b) ==
    IF \E i \in 1..Len(ch) : b.hash = ch[i].hash THEN "duplicate"
    ELSE IF ch = <<>> THEN "no_tip"
    ELSE IF NotTipLinked(ch, b) THEN "not_tip"
    ELSE IF b.merkle_tree = NoMerkleTree THEN "log_raise"
    ELSE IF b.difficulty # diff THEN "bad_difficulty"
    ELSE IF ~StartsWithZeros(b.hash, diff) THEN "bad_prefix"
    ELSE IF b.hash # BlockToHashWithContentOnly(b) THEN "bad_seal"
    ELSE IF b.merkle_tree # GetMerkleRoot(b.transactions) THEN "bad_merkle"
    ELSE IF HasTamperedSignature(b) THEN "bad_signature"
    ELSE "accepted"

\* Whether receive_block leaves by an exception: the duplicate and the
\* link branch log the block too (lines 157, 163), which raises
\* AttributeError when merkle_tree was never assigned.
ReceiveBlockRaises(ch, diff, b) ==
    \/ ReceiveBlockVerdict(ch, diff, b) \in {"no_tip", "log_raise"}
    \/ /\ ReceiveBlockVerdict(ch, diff, b) \in {"duplicate", "not_tip"}
       /\ b.merkle_tree = NoMerkleTree

\* Blockchain.receive_block lines 204-207: the pending transactions left once
\* those of the block are removed.
RemoveIncluded(pend, b) ==
    SelectSeq(pend, LAMBDA p : ~InTransactions(b.transactions, p))

\* The sort that puts a transaction before those of the same fee.
InsertByFeeMutant(sorted, t) ==
    LET RECURSIVE Insert(_)
        Insert(rest) ==
            IF rest = <<>> THEN <<t>>
            ELSE IF Head(rest).fee > t.fee
                 THEN <<Head(rest)>> \o Insert(Tail(rest))
                 ELSE <<t>> \o rest
    IN  Insert(sorted)

\* list.sort(key=fee, reverse=True): stable, highest fee first.
RECURSIVE InsertByFee(_, _)
InsertByFee(sorted, t) ==
    IF sorted = <<>> THEN <<t>>
    ELSE IF Head(sorted).fee >= t.fee
         THEN <<Head(sorted)>> \o InsertByFee(Tail(sorted), t)
         ELSE <<t>> \o sorted

RECURSIVE SortByFee(_)
SortByFee(pend) ==
    IF pend = <<>> THEN <<>>
    ELSE InsertByFee(SortByFee(SubSeq(pend, 1, Len(pend) - 1)), Last(pend))

\* Blockchain._add_transactions_to_block: how many transactions are popped.
PopCount(pend, max_tx) == IF Len(pend) > max_tx THEN max_tx ELSE Len(pend)

\* ... the transactions the candidate block gets ...
DrainedTransactions(pend, max_tx) ==
    AddAllTransactions(<<>>, SubSeq(SortByFee(pend), 1, PopCount(pend, max_tx)))

\* ... and what stays in pending_transactions.
RemainingPending(pend, max_tx) ==
    SubSeq(SortByFee(pend), PopCount(pend, max_tx) + 1, Len(pend))

\* Blockchain.adjust_difficulty: the difficulty after the call.
AdjustDifficulty(ch, diff, is_mining, adjust_every, target_time) ==
    IF ~is_mining THEN diff
    ELSE IF Len(ch) % adjust_every = 1 /\ Len(ch) > adjust_every
    THEN LET timestamp_start == ch[Len(ch) - adjust_every].timestamp
             timestamp_end == Last(ch).timestamp
             seconds_in_between == (timestamp_end - timestamp_start) \div 1000
         IN  \* average_block_time > target_time, without the division
             IF seconds_in_between > target_time * adjust_every
             THEN (IF diff > 1 THEN diff - 1 ELSE 1)
             ELSE diff + 1
    ELSE diff

----------------------------------------------------------------------------
(* Miner: Blockchain.mine_block *)

\* Block.hash of a block that is not sealed yet (the empty string).
NoHash == <<>>

\* mine_block lines 72-85: the candidate, before the nonce search.
NewCandidate(ch, pend, diff, max_tx) ==
    Block(IF ch = <<>> THEN GenesisPreviousHash ELSE Last(ch).hash,
          NoHash, diff, 0, 0,
          IF ch = <<>> THEN <<>> ELSE DrainedTransactions(pend, max_tx),
          WalletAccount, MINING_REWARDS)

\* ... and the mempool it leaves behind (the genesis candidate drains nothing).
PendingAfterCandidate(ch, pend, max_tx) ==
    IF ch = <<>> THEN pend ELSE RemainingPending(pend, max_tx)

\* mine_block lines 89-91: one attempt of the nonce search.
Attempt(cand, nonce, timestamp) ==
    [cand EXCEPT !.nonce = nonce, !.timestamp = timestamp]

\* mine_block line 93: the attempt's digest has the zero prefix.
AttemptSucceeds(cand, nonce, timestamp) ==
    StartsWithZeros(BlockToHashWithContentOnly(Attempt(cand, nonce, timestamp)),
                    cand.difficulty)

\* mine_block line 94: the sealed block.
Sealed(cand, nonce, timestamp) ==
    [Attempt(cand, nonce, timestamp) EXCEPT
        !.hash = BlockToHashWithContentOnly(Attempt(cand, nonce, timestamp))]

\* mine_block lines 102-104: the tip is no longer the candidate's parent.
TipChanged(ch, b) == ch # <<>> /\ Last(ch).hash # b.previous_hash

\* mine_block lines 109-112: the index (from 1) the walk over the chain
\* starts at: the last block whose hash is the candidate's previous_hash,
\* the first block when there is none.
DifferentFrom(ch, b) ==
    IF \E i \in 1..Len(ch) : ch[i].hash = b.previous_hash
    THEN CHOOSE i \in 1..Len(ch) :
            /\ ch[i].hash = b.previous_hash
            /\ \A j \in (i + 1)..Len(ch) : ch[j].hash # b.previous_hash
    ELSE 1

\* mine_block lines 115-120: the candidate's transactions that are in no
\* chain block from DifferentFrom on.
Survivors(ch, b) ==
    SelectSeq(b.transactions,
              LAMBDA t : ~\E i \in DifferentFrom(ch, b)..Len(ch) :
                            InTransactions(ch[i].transactions, t))

----------------------------------------------------------------------------
(* Peers and broadcast *)

\* NetworkNode: inet_address and inet_port
NetworkNode(inet_address, inet_port) ==
    [inet_address |-> inet_address, inet_port |-> inet_port]

\* NetworkNode.to_hash
NodeToHash(n) == HashString(<<n.inet_address, n.inet_port>>)

\* Blockchain.add_network_nodes: whether n is new.
IsNewNode(prs, n) == ~\E i \in 1..Len(prs) : NodeToHash(prs[i]) = NodeToHash(n)

\* Blockchain.broadcast_network_message lines 567-569: the peer list once
\* the peers at the positions `failed` are removed.
RemoveFailed(prs, failed) ==
    LET keep == {i \in 1..Len(prs) : i \notin failed}
        RECURSIVE Kept(_)
        Kept(i) == IF i > Len(prs) THEN <<>>
                   ELSE (IF i \in keep THEN <<prs[i]>> ELSE <<>>) \o Kept(i + 1)
    IN  Kept(1)

----------------------------------------------------------------------------
(* Inputs *)

\* The nonces NonceMaker.get_nonce draws: one whose digest is a zero short of
\* the difficulty, one whose digest has the prefix.
Nonces(diff) == {diff - 1, diff}

Times == 0..MaxTime
Fees == {0, 1}

\* Amount and fee of the payments: the miner's first reward less one, the
\* same with a fee (the whole reward), and one unit more than the reward.
Payments ==
    {<<MINING_REWARDS - 1, 0>>, <<MINING_REWARDS - 1, 1>>, <<MINING_REWARDS, 1>>}

\* The transactions clients and peers submit: each signed by its sender,
\* and one signed with another key and one with a signature of the wrong
\* length.
TxPool ==
    {SignedTransaction(WalletAccount, PeerAccount, p[1], p[2]) : p \in Payments}
    \cup {SignedTransaction(PeerAccount, WalletAccount, MINING_REWARDS - 1, 0),
          ForgedTransaction(WalletAccount, PeerAccount, MINING_REWARDS - 1, 0),
          Transaction(WalletAccount, PeerAccount, MINING_REWARDS - 1, 0,
                      ShortSignature)}

\* The transaction lists of the blocks peers mine.
BlockTxSeqs ==
    LET t0 == SignedTransaction(WalletAccount, PeerAccount, MINING_REWARDS - 1, 0)
        t1 == SignedTransaction(WalletAccount, PeerAccount, MINING_REWARDS - 1, 1)
        forged == ForgedTransaction(WalletAccount, PeerAccount, MINING_REWARDS - 1, 0)
    IN  {<<>>, <<t0>>, <<t1, t0>>, <<forged>>}

\* What may be wrong with a block a peer sends.
Defects == {"none", "stale_parent", "wrong_difficulty", "low_work", "tampered"}

\* A block a peer mined and sealed.  Without defect it extends the tip at
\* the node's difficulty with a nonce whose digest has the zero prefix.
\* "stale_parent": it extends the block before the tip (the literal "0" when
\* there is none); "wrong_difficulty": its difficulty is one higher;
\* "low_work": its digest has one zero too few; "tampered": its
\* miner_rewards was changed after the seal was computed.
PeerBlock(ch, diff, defect, timestamp, transactions) ==
    LET previous_hash ==
            IF ch = <<>> THEN GenesisPreviousHash
            ELSE IF defect # "stale_parent" THEN Last(ch).hash
            ELSE IF Len(ch) > 1 THEN ch[Len(ch) - 1].hash
            ELSE GenesisPreviousHash
        bdifficulty == IF defect = "wrong_difficulty" THEN diff + 1 ELSE diff
        nonce == IF defect = "low_work" THEN bdifficulty - 1 ELSE bdifficulty
        cand == Block(previous_hash, NoHash, bdifficulty, 0, 0,
                      AddAllTransactions(<<>>, transactions),
                      PeerAccount, MINING_REWARDS)
        sealed == Sealed(cand, nonce, timestamp)
    IN  IF defect = "tampered"
        THEN [sealed EXCEPT !.miner_rewards = MINING_REWARDS + 1]
        ELSE sealed

\* The blocks that arrive in broadcastedBlock requests: well-formed ones of
\* every timestamp and transaction list, defective ones, and the blocks of
\* the node's own chain coming back.
WireBlocks(ch, diff, time) ==
    {PeerBlock(ch, diff, "none", ts, txs) : ts \in Times, txs \in BlockTxSeqs}
    \cup {PeerBlock(ch, diff, defect, time, txs) :
            defect \in Defects,
            txs \in IF ch = <<>> THEN {<<>>} ELSE {<<>>, Last(ch).transactions}}
    \cup {ch[i] : i \in 1..Len(ch)}

\* The peer addresses that arrive in joinNetwork requests.
NodePool == {NetworkNode("host", port) : port \in 1..MaxPeers}

\* The connection-handler threads that run at the same time.
Handlers == 1..MaxHandlers

\* The value of a local that holds nothing.
NoBlock == <<>>

----------------------------------------------------------------------------
(* The node after Blockchain.__init__: genesis is mined at construction. *)

\* No broadcast is under way and no socket is open.
NoBroadcast ==
    /\ bpc = "idle" /\ bidx = 0
    /\ nodes_to_remove = <<>> /\ bstart = <<>> /\ netlog = <<>>
    /\ sockets = {}

Init ==
    /\ \E nonce \in Nonces(INIT_DIFFICULTY) :
          LET cand == NewCandidate(<<>>, <<>>, INIT_DIFFICULTY, MAX_TRANSACTIONS_IN_BLOCK)
          IN  /\ AttemptSucceeds(cand, nonce, 0)
              /\ chain = <<Sealed(cand, nonce, 0)>>
    /\ pending = <<>>
    /\ difficulty = INIT_DIFFICULTY
    /\ mining = TRUE
    /\ peers = <<>>
    /\ now = 0
    /\ op = "init"
    /\ why = "accepted"
    /\ ret = "None"
    /\ resp = ""
    /\ outbox = <<>>
    /\ mpc = "idle"
    /\ new_block = NoBlock
    /\ hpc = [h \in Handlers |-> "idle"]
    /\ harg = [h \in Handlers |-> NoBlock]
    /\ NoBroadcast

----------------------------------------------------------------------------
(* Operations, each run to completion *)

\* The clock advances.
Tick ==
    /\ now < MaxTime
    /\ now' = now + 1
    /\ op' = "tick" /\ why' = "accepted" /\ ret' = "None" /\ resp' = "" /\ outbox' = <<>>
    /\ UNCHANGED <<chain, pending, difficulty, mining, peers, threads>>

\* The broadcast left out.
BroadcastMutant(verb, item) ==
    /\ outbox' = <<>>
    /\ peers' = peers

\* Blockchain.broadcast_network_message(verb, item): the call is recorded and
\* the peers whose connect, send or receive fails are removed.
Broadcast(verb, item) ==
    /\ outbox' = <<<<verb, item>>>>
    /\ \E failed \in SUBSET (1..Len(peers)) : peers' = RemoveFailed(peers, failed)

\* mine_block lines 101-134 for the sealed block b, `pend` being the mempool
\* at that moment: the candidate is dropped when the tip changed, appended
\* and broadcast otherwise.
Publish(b, pend) ==
    IF TipChanged(chain, b)
    THEN /\ pending' = pend \o Survivors(chain, b)
         /\ why' = "tip_changed"
         /\ outbox' = <<>>
         /\ UNCHANGED <<chain, peers>>
    ELSE /\ chain' = Append(chain, b)
         /\ pending' = pend
         /\ why' = "accepted"
         /\ Broadcast("broadcastedBlock", b)

\* One iteration of start_blockchain.mining_loop: mine_block, then
\* adjust_difficulty.
MiningLoop(adjust_every) ==
    /\ op' = "mine_block" /\ ret' = "None" /\ resp' = ""
    /\ IF ~mining
       THEN /\ why' = "not_mining" /\ outbox' = <<>>
            /\ UNCHANGED <<chain, pending, difficulty, peers>>
       ELSE /\ Len(chain) < MaxChain
            /\ \E nonce \in Nonces(difficulty) :
                  LET cand == NewCandidate(chain, pending, difficulty,
                                           MAX_TRANSACTIONS_IN_BLOCK)
                  IN  /\ AttemptSucceeds(cand, nonce, now)
                      /\ Publish(Sealed(cand, nonce, now),
                                 PendingAfterCandidate(chain, pending,
                                                       MAX_TRANSACTIONS_IN_BLOCK))
            /\ difficulty' = AdjustDifficulty(chain', difficulty, mining,
                                              adjust_every, BLOCK_TIME_IN_EVERY)
    /\ UNCHANGED <<mining, now, threads>>

\* client_handler, verb broadcastedBlock (start_blockchain.py lines 123-130):
\* decode the block, call receive_block, reply.
HandleBroadcastedBlock(w) ==
    LET b == BlockFromBase64(w)
        verdict == ReceiveBlockVerdict(chain, difficulty, b)
    IN  /\ op' = "broadcastedBlock"
        /\ why' = verdict
        /\ IF verdict = "accepted"
           THEN /\ Len(chain) < MaxChain
                /\ pending' = RemoveIncluded(pending, b)
                /\ chain' = Append(chain, b)
                /\ Broadcast("broadcastedBlock", b)
                /\ ret' = "True" /\ resp' = "Ok"
           ELSE /\ outbox' = <<>>
                /\ ret' = IF ReceiveBlockRaises(chain, difficulty, b)
                          THEN "raise" ELSE "False"
                /\ resp' = IF ReceiveBlockRaises(chain, difficulty, b)
                           THEN "" ELSE "Duplicated or Tampered"
                /\ UNCHANGED <<chain, pending, peers>>
        /\ UNCHANGED <<difficulty, mining, now, threads>>

\* client_handler, verbs doTransact and broadcastedTransaction
\* (start_blockchain.py lines 96-103, 132-139): call receive_transaction, reply.
HandleTransaction(verb, t) ==
    LET verdict == ReceiveTransactionVerdict(chain, pending, t)
    IN  /\ op' = verb
        /\ why' = verdict
        /\ IF verdict = "accepted"
           THEN /\ Len(pending) < MaxPending
                /\ pending' = Append(pending, t)
                /\ Broadcast("broadcastedTransaction", t)
                /\ ret' = "True" /\ resp' = "Ok"
           ELSE /\ outbox' = <<>>
                /\ ret' = "False"
                /\ resp' = IF verb = "doTransact" THEN "Error" ELSE "Duplicated"
                /\ UNCHANGED <<pending, peers>>
        /\ UNCHANGED <<chain, difficulty, mining, now, threads>>

\* client_handler, verb joinNetwork (lines 114-121): receive_network_node.
HandleJoinNetwork(n) ==
    /\ op' = "joinNetwork"
    /\ IF IsNewNode(peers, n)
       THEN /\ outbox' = <<<<"broadcastedNewNode", n>>>>
            /\ \E failed \in SUBSET (1..(Len(peers) + 1)) :
                  peers' = RemoveFailed(Append(peers, n), failed)
            /\ why' = "accepted" /\ ret' = "True" /\ resp' = "Ok"
       ELSE /\ outbox' = <<>>
            /\ why' = "duplicate" /\ ret' = "False" /\ resp' = "Dup"
            /\ UNCHANGED peers
    /\ UNCHANGED <<chain, pending, difficulty, mining, now, threads>>

\* The verbs that end in receive_transaction.
TxVerbs == {"doTransact", "broadcastedTransaction"}

Next ==
    \/ Tick
    \/ MiningLoop(ADJUST_DIFFICULTY_IN_EVERY)
    \/ \E w \in WireBlocks(chain, difficulty, now) : HandleBroadcastedBlock(w)
    \/ \E verb \in TxVerbs, t \in TxPool : HandleTransaction(verb, t)
    \/ \E n \in NodePool : HandleJoinNetwork(n)

Spec == Init /\ [][Next]_vars

\* mining_loop and receive_block alone: no transaction is submitted and no
\* peer joins.
ChainNext ==
    \/ Tick
    \/ MiningLoop(ADJUST_DIFFICULTY_IN_EVERY)
    \/ \E w \in WireBlocks(chain, difficulty, now) : HandleBroadcastedBlock(w)

ChainSpec == Init /\ [][ChainNext]_vars

\* The blocks that arrive at a node whose transaction intake is examined.
TxWireBlocks(ch, diff, time) ==
    {PeerBlock(ch, diff, "none", time,
               <<SignedTransaction(WalletAccount, PeerAccount,
                                   MINING_REWARDS - 1, 0)>>)}

\* Transaction intake, with the operations that move transactions into the
\* chain and change balances and peers; the clock stands still.
TxNext ==
    \/ MiningLoop(ADJUST_DIFFICULTY_IN_EVERY)
    \/ \E w \in TxWireBlocks(chain, difficulty, now) : HandleBroadcastedBlock(w)
    \/ \E verb \in TxVerbs, t \in TxPool : HandleTransaction(verb, t)
    \/ \E n \in NodePool : HandleJoinNetwork(n)

TxSpec == Init /\ [][TxNext]_vars

----------------------------------------------------------------------------
(* The threads of start_blockchain.py: the miner in the main thread and one *)
(* thread per connection.  No lock is taken anywhere in the code, so a      *)
(* thread may be preempted between the checks of an operation and its       *)
(* writes.  Each operation is cut once there: at line 130 of mine_block,    *)
(* at line 203 of receive_block, at line 263 of receive_transaction; the    *)
(* miner is also cut after it has drained the mempool, while it hashes, and  *)
(* between the return of mine_block and the call of adjust_difficulty.      *)

\* The transactions and blocks that arrive while threads overlap.
ConcTxPool ==
    {SignedTransaction(WalletAccount, PeerAccount, MINING_REWARDS - 1, f) :
        f \in Fees}

ConcWireBlocks(ch, diff, time) ==
    {PeerBlock(ch, diff, defect, time, txs) :
        defect \in {"none", "stale_parent"},
        txs \in {<<t>> : t \in ConcTxPool}}

\* The threads that passed their checks and are about to append a block.
BlocksInFlight ==
    (IF mpc \in {"hashing", "sealed", "append"} THEN 1 ELSE 0)
        + Cardinality({h \in Handlers : hpc[h] = "receive_block"})

TransactionsInFlight ==
    Cardinality({h \in Handlers : hpc[h] = "receive_transaction"})

\* mine_block lines 66-84: the candidate is created on the tip and the
\* mempool is drained into it.
MinerAssemble ==
    /\ mpc = "idle"
    /\ IF ~mining
       THEN /\ op' = "mine_block" /\ why' = "not_mining"
            /\ ret' = "None" /\ resp' = "" /\ outbox' = <<>>
            /\ mpc' = "paused"
            /\ UNCHANGED <<pending, new_block>>
       ELSE /\ Len(chain) + BlocksInFlight < MaxChain
            /\ new_block' = NewCandidate(chain, pending, difficulty,
                                         MAX_TRANSACTIONS_IN_BLOCK)
            /\ pending' = PendingAfterCandidate(chain, pending,
                                                MAX_TRANSACTIONS_IN_BLOCK)
            /\ mpc' = "hashing"
            /\ UNCHANGED <<op, why, ret, resp, outbox>>
    /\ UNCHANGED <<chain, difficulty, mining, peers, now, hpc, harg,
                   broadcasting>>

\* mine_block lines 87-95: the loop ends with a nonce whose digest has the
\* zero prefix.
MinerSeal ==
    /\ mpc = "hashing"
    /\ \E nonce \in Nonces(new_block.difficulty) :
          /\ AttemptSucceeds(new_block, nonce, now)
          /\ new_block' = Sealed(new_block, nonce, now)
    /\ mpc' = "sealed"
    /\ UNCHANGED <<chain, pending, difficulty, mining, peers, now,
                   op, why, ret, resp, outbox, hpc, harg,
                   broadcasting>>

\* mine_block lines 101-127: the tip is compared with the candidate's
\* previous_hash; a stale candidate is dropped and its surviving
\* transactions go back to the mempool, and mine_block returns.
MinerCheckTip ==
    /\ mpc = "sealed"
    /\ IF TipChanged(chain, new_block)
       THEN /\ pending' = pending \o Survivors(chain, new_block)
            /\ mpc' = "discarded"
            /\ new_block' = NoBlock
            /\ op' = "mine_block" /\ why' = "tip_changed"
            /\ ret' = "None" /\ resp' = "" /\ outbox' = <<>>
       ELSE /\ mpc' = "append"
            /\ UNCHANGED <<pending, new_block, op, why, ret, resp, outbox>>
    /\ UNCHANGED <<chain, difficulty, mining, peers, now, hpc, harg,
                   broadcasting>>

\* mine_block lines 130-134: the block is appended and broadcast, and
\* mine_block returns.
MinerAppend ==
    /\ mpc = "append"
    /\ chain' = Append(chain, new_block)
    /\ Broadcast("broadcastedBlock", new_block)
    /\ mpc' = "appended"
    /\ new_block' = NoBlock
    /\ op' = "mine_block" /\ why' = "accepted" /\ ret' = "None" /\ resp' = ""
    /\ UNCHANGED <<pending, difficulty, mining, now, hpc, harg,
                   broadcasting>>

\* Where the miner is when mine_block has returned: at line 67 (mining is
\* off), at line 127 (the candidate was dropped), after line 134 (the block
\* was appended and broadcast).
Returned == {"paused", "discarded", "appended"}

\* mining_loop line 197: adjust_difficulty, called after every return of
\* mine_block.
MinerAdjust(adjust_every) ==
    /\ mpc \in Returned
    /\ difficulty <= MaxDifficulty
    /\ difficulty' = AdjustDifficulty(chain, difficulty, mining,
                                      adjust_every, BLOCK_TIME_IN_EVERY)
    /\ mpc' = "idle"
    /\ op' = "adjust_difficulty" /\ why' = "accepted"
    /\ ret' = "None" /\ resp' = "" /\ outbox' = <<>>
    /\ UNCHANGED <<chain, pending, mining, peers, now, new_block, hpc, harg,
                   broadcasting>>

\* receive_block lines 154-201 in handler h: every check of the block.  A
\* rejected block is answered at once.
HandlerCheckBlock(h, w) ==
    LET b == BlockFromBase64(w)
        verdict == ReceiveBlockVerdict(chain, difficulty, b)
    IN  /\ hpc[h] = "idle"
        /\ IF verdict = "accepted"
           THEN /\ Len(chain) + BlocksInFlight < MaxChain
                /\ hpc' = [hpc EXCEPT ![h] = "receive_block"]
                /\ harg' = [harg EXCEPT ![h] = b]
                /\ UNCHANGED <<op, why, ret, resp, outbox>>
           ELSE /\ op' = "broadcastedBlock"
                /\ why' = verdict
                /\ outbox' = <<>>
                /\ ret' = IF ReceiveBlockRaises(chain, difficulty, b)
                          THEN "raise" ELSE "False"
                /\ resp' = IF ReceiveBlockRaises(chain, difficulty, b)
                           THEN "" ELSE "Duplicated or Tampered"
                /\ UNCHANGED <<hpc, harg>>
        /\ UNCHANGED <<chain, pending, difficulty, mining, peers, now,
                       mpc, new_block,
                   broadcasting>>

\* receive_block lines 203-214 in handler h: the block's transactions leave
\* the mempool, the block is appended and broadcast, the reply is sent.
HandlerAppendBlock(h) ==
    /\ hpc[h] = "receive_block"
    /\ pending' = RemoveIncluded(pending, harg[h])
    /\ chain' = Append(chain, harg[h])
    /\ Broadcast("broadcastedBlock", harg[h])
    /\ op' = "broadcastedBlock" /\ why' = "accepted"
    /\ ret' = "True" /\ resp' = "Ok"
    /\ hpc' = [hpc EXCEPT ![h] = "idle"]
    /\ harg' = [harg EXCEPT ![h] = NoBlock]
    /\ UNCHANGED <<difficulty, mining, now, mpc, new_block,
                   broadcasting>>

\* receive_transaction lines 226-261 in handler h: every check of the
\* transaction.  A rejected transaction is answered at once.
HandlerCheckTransaction(h, verb, t) ==
    LET verdict == ReceiveTransactionVerdict(chain, pending, t)
    IN  /\ hpc[h] = "idle"
        /\ IF verdict = "accepted"
           THEN /\ Len(pending) + TransactionsInFlight < MaxPending
                /\ hpc' = [hpc EXCEPT ![h] = "receive_transaction"]
                /\ harg' = [harg EXCEPT ![h] = t]
                /\ UNCHANGED <<op, why, ret, resp, outbox>>
           ELSE /\ op' = verb
                /\ why' = verdict
                /\ outbox' = <<>>
                /\ ret' = "False"
                /\ resp' = IF verb = "doTransact" THEN "Error" ELSE "Duplicated"
                /\ UNCHANGED <<hpc, harg>>
        /\ UNCHANGED <<chain, pending, difficulty, mining, peers, now,
                       mpc, new_block,
                   broadcasting>>

\* receive_transaction lines 263-266 in handler h: the transaction is
\* appended to the mempool and broadcast, the reply is sent.
HandlerAppendTransaction(h) ==
    /\ hpc[h] = "receive_transaction"
    /\ pending' = Append(pending, harg[h])
    /\ Broadcast("broadcastedTransaction", harg[h])
    /\ op' = "broadcastedTransaction" /\ why' = "accepted"
    /\ ret' = "True" /\ resp' = "Ok"
    /\ hpc' = [hpc EXCEPT ![h] = "idle"]
    /\ harg' = [harg EXCEPT ![h] = NoBlock]
    /\ UNCHANGED <<chain, difficulty, mining, now, mpc, new_block,
                   broadcasting>>

ConcNext ==
    \/ MinerAssemble
    \/ MinerSeal
    \/ MinerCheckTip
    \/ MinerAppend
    \/ MinerAdjust(ADJUST_DIFFICULTY_IN_EVERY)
    \/ \E h \in Handlers, w \in ConcWireBlocks(chain, difficulty, now) :
          HandlerCheckBlock(h, w)
    \/ \E h \in Handlers : HandlerAppendBlock(h)
    \/ \E h \in Handlers, t \in ConcTxPool :
          HandlerCheckTransaction(h, "broadcastedTransaction", t)
    \/ \E h \in Handlers : HandlerAppendTransaction(h)

ConcSpec == Init /\ [][ConcNext]_vars

----------------------------------------------------------------------------
(* Chain cloning and the mining switch *)

\* add_network_nodes for each node of a list.
RECURSIVE AddNetworkNodes(_, _)
AddNetworkNodes(prs, nodes) ==
    IF nodes = <<>> THEN prs
    ELSE AddNetworkNodes(IF IsNewNode(prs, Head(nodes))
                         THEN Append(prs, Head(nodes)) ELSE prs,
                         Tail(nodes))

\* from_base64_of_exchange: the difficulty is taken over, the nodes are
\* added, every block is decoded and appended.
DecodedChain(blocks) == [i \in 1..Len(blocks) |-> BlockFromBase64(blocks[i])]

\* A clone that compares every pair of neighbours, the last one included.
CloneIntegrityMutant(ch) ==
    \A i \in 1..(Len(ch) - 1) :
        /\ ch[i + 1].previous_hash = ch[i].hash
        /\ ch[i + 1].timestamp >= ch[i].timestamp

\* get_blockchain_from lines 320-333: only when the chain has more than two
\* blocks are links and timestamps compared, and the last pair never is.
CloneIntegrity(ch) ==
    Len(ch) > 2 =>
        \A i \in 1..(Len(ch) - 2) :
            /\ ch[i + 1].previous_hash = ch[i].hash
            /\ ch[i + 1].timestamp >= ch[i].timestamp

\* The genesis block of the peer that is cloned from.
PeerGenesis ==
    Sealed(Block(GenesisPreviousHash, NoHash, INIT_DIFFICULTY, 0, 0, <<>>,
                 PeerAccount, MINING_REWARDS),
           INIT_DIFFICULTY, 0)

\* The chains a peer answers cloneChain with: its genesis, followed by up to
\* two blocks it mined, well-formed or defective.
PeerChains ==
    LET payment == SignedTransaction(PeerAccount, WalletAccount,
                                     MINING_REWARDS - 1, 0)
        grow(chains, defects) ==
            {Append(c, PeerBlock(c, INIT_DIFFICULTY, defect, ts, <<payment>>)) :
                c \in chains, defect \in defects, ts \in Times}
        two == grow({<<PeerGenesis>>}, Defects)
    IN  {<<PeerGenesis>>} \cup two \cup grow(two, {"none", "stale_parent"})

\* The answers to cloneChain.
Snapshots ==
    {[difficulty |-> d, networkNodes |-> nodes, chain |-> c] :
        d \in {INIT_DIFFICULTY}, nodes \in {<<>>} \cup {<<n>> : n \in NodePool},
        c \in {c \in PeerChains : Len(c) <= MaxChain}}

\* The node that is named in getCloneChainFrom.
CloneTarget == NetworkNode("target", 1)

\* client_handler, verb getCloneChainFrom (start_blockchain.py lines
\* 105-112): get_blockchain_from.  Mining stops, a non-empty chain and the
\* mempool are erased, and when the target answers, its snapshot is loaded
\* and then examined.  The target is disconnected at line 337, after the
\* examination has passed; the returns of lines 328 and 333 leave its
\* socket as it is.
HandleGetCloneChainFrom(reachable, snapshot) ==
    LET loaded == DecodedChain(snapshot.chain)
    IN  /\ op' = "getCloneChainFrom"
        /\ mining' = FALSE
        /\ pending' = IF chain # <<>> THEN <<>> ELSE pending
        /\ outbox' = <<>>
        /\ IF reachable
           THEN /\ difficulty' = snapshot.difficulty
                /\ peers' = AddNetworkNodes(peers, snapshot.networkNodes)
                /\ chain' = loaded
                /\ why' = IF CloneIntegrity(loaded) THEN "accepted" ELSE "bad_chain"
                /\ ret' = IF CloneIntegrity(loaded) THEN "True" ELSE "False"
                /\ resp' = IF CloneIntegrity(loaded) THEN "Ok" ELSE "Error"
           ELSE /\ chain' = <<>>
                /\ why' = "unreachable" /\ ret' = "False" /\ resp' = "Error"
                /\ UNCHANGED <<difficulty, peers>>
        /\ sockets' = IF reachable /\ ~CloneIntegrity(loaded)
                      THEN sockets \cup {CloneTarget} ELSE sockets
        /\ UNCHANGED <<now, mpc, new_block, hpc, harg,
                       bpc, bidx, nodes_to_remove, bstart, netlog>>

\* client_handler, verbs startMine and stopMine (lines 157-165).
HandleMineStart ==
    /\ mining' = TRUE
    /\ op' = "startMine" /\ why' = "accepted" /\ ret' = "None"
    /\ resp' = "Ok" /\ outbox' = <<>>
    /\ UNCHANGED <<chain, pending, difficulty, peers, now, threads>>

HandleMineStop ==
    /\ mining' = FALSE
    /\ op' = "stopMine" /\ why' = "accepted" /\ ret' = "None"
    /\ resp' = "Ok" /\ outbox' = <<>>
    /\ UNCHANGED <<chain, pending, difficulty, peers, now, threads>>

\* The blocks that arrive at a node that clones.
CloneWireBlocks(ch, diff, time) ==
    {PeerBlock(ch, diff, defect, time, <<>>) : defect \in {"none", "tampered"}}
    \cup {PeerBlock(ch, diff, "none", time,
                    <<SignedTransaction(PeerAccount, WalletAccount,
                                        MINING_REWARDS - 1, 1)>>)}

CloneNext ==
    \/ Tick
    \/ MiningLoop(ADJUST_DIFFICULTY_IN_EVERY)
    \/ \E w \in CloneWireBlocks(chain, difficulty, now) : HandleBroadcastedBlock(w)
    \/ \E reachable \in BOOLEAN, snapshot \in Snapshots :
          HandleGetCloneChainFrom(reachable, snapshot)
    \/ HandleMineStart
    \/ HandleMineStop

CloneSpec == Init /\ [][CloneNext]_vars

----------------------------------------------------------------------------
(* Properties of the operations run one after another (Spec) *)

\* C1: from a freshly constructed node, under mine_block and receive_block
\* calls that each run to completion, the first block's previous_hash is "0"
\* and every later block's previous_hash is the hash of the block before it.
C1_ChainLinked ==
    /\ chain # <<>>
    /\ chain[1].previous_hash = GenesisPreviousHash
    /\ \A i \in 2..Len(chain) : chain[i].previous_hash = chain[i - 1].hash

\* A chain of three blocks: genesis, a self-mined block, a received block.
C1_Witness ==
    /\ Len(chain) = 3
    /\ chain[2].miner = WalletAccount
    /\ chain[3].miner = PeerAccount
    /\ op = "broadcastedBlock" /\ ret = "True"

\* C4: after every accepted change of the chain no block has a timestamp
\* smaller than the block before it.
C4_TimestampsMonotone ==
    \A i \in 2..Len(chain) : chain[i].timestamp >= chain[i - 1].timestamp

\* C5: no transaction digest appears in two chain blocks or twice inside one
\* block.
C5_NoTransactionTwiceInChain ==
    \A i, j \in 1..Len(chain) :
        \A k \in 1..Len(chain[i].transactions) :
            \A l \in 1..Len(chain[j].transactions) :
                TxToHash(chain[i].transactions[k]) = TxToHash(chain[j].transactions[l])
                    => (i = j /\ k = l)

RejectionReasons ==
    {"duplicate", "not_tip", "bad_difficulty", "bad_prefix", "bad_seal",
     "bad_merkle", "bad_signature"}

\* C8: whenever receive_block rejects a block for one of its reasons it
\* returns False, the handler replies "Duplicated or Tampered", nothing is
\* broadcast, and chain, mempool, difficulty and peers are unchanged.
C8_RejectedBlockReplied ==
    [][(op' = "broadcastedBlock" /\ why' \in RejectionReasons)
          => /\ ret' = "False"
             /\ resp' = "Duplicated or Tampered"
             /\ outbox' = <<>>
             /\ UNCHANGED <<chain, pending, difficulty, peers>>]_vars

\* C9: receive_transaction appends the transaction to the mempool and
\* broadcasts it exactly when it returns True; when it returns False the
\* mempool, the chain and the peers are unchanged and nothing is broadcast.
C9_TransactionAcceptedOrUntouched ==
    [][op' \in TxVerbs
          => IF ret' = "True"
             THEN /\ Len(pending') = Len(pending) + 1
                  /\ SubSeq(pending', 1, Len(pending)) = pending
                  /\ outbox' = <<<<"broadcastedTransaction", Last(pending')>>>>
                  /\ chain' = chain
             ELSE /\ ret' = "False"
                  /\ outbox' = <<>>
                  /\ UNCHANGED <<pending, chain, peers>>]_vars

\* A broadcast transaction was accepted by a node that has a peer.
C9_Witness ==
    /\ op = "broadcastedTransaction" /\ ret = "True"
    /\ pending # <<>>
    /\ peers # <<>>
    /\ outbox # <<>>

CorrectlySigned(t) ==
    /\ ValidateSignatureFormat(t.sender, t.signature)
    /\ IsSignatureValid(t.sender, TxToBase64WithContentOnly(t), t.signature)

\* C10: a correctly signed transaction that is neither in the mempool nor in
\* the chain is accepted exactly when amount + fee <= the sender's balance
\* over the chain alone, whatever the mempool holds; an accepting call is one
\* whose transaction the chain balance covers.
C10_AcceptedIffCovered ==
    /\ [](\A t \in TxPool :
            (/\ CorrectlySigned(t)
             /\ ~InTransactions(pending, t)
             /\ ~InChain(chain, t))
            => (ReceiveTransactionVerdict(chain, pending, t) = "accepted"
                  <=> t.amount + t.fee <= GetAccountBalance(chain, t.sender)))
    /\ [][op' \in TxVerbs
            => /\ ret' = "True"
                  => Last(pending').amount + Last(pending').fee
                        <= GetAccountBalance(chain, Last(pending').sender)
               /\ why' = "insufficient" => ret' = "False"]_vars

\* The mempool holds two transactions of one sender, the second accepted with
\* amount + fee equal to the sender's whole chain balance.
C10_Witness ==
    /\ op \in TxVerbs /\ ret = "True"
    /\ Len(pending) = 2
    /\ pending[1].sender = pending[2].sender
    /\ pending[2].amount + pending[2].fee
          = GetAccountBalance(chain, pending[2].sender)

----------------------------------------------------------------------------
(* Properties of the threads running at the same time (ConcSpec) *)

\* C2: under any interleaving of the miner with handlers running
\* receive_block, the miner appends its candidate only when, at the moment
\* of the append, the candidate's previous_hash is the hash of the tip.
C2_MinerAppendsOnTip ==
    [][(mpc = "append" /\ mpc' = "appended")
          => new_block.previous_hash = Last(chain).hash]_vars

\* C3: of the blocks handlers accept no two extend the same block, and the
\* mempool holds a transaction that handlers accepted only once.
C3_AcceptsLinearizable ==
    /\ \A i, j \in 1..Len(chain) :
          (/\ i # j
           /\ chain[i].miner = PeerAccount
           /\ chain[j].miner = PeerAccount)
          => chain[i].previous_hash # chain[j].previous_hash
    /\ \A i, j \in 1..Len(pending) :
          i # j => TxToHash(pending[i]) # TxToHash(pending[j])

\* C6: under any interleaving of the miner with the handlers no transaction
\* digest is both in the mempool and in a chain block.
C6_MempoolChainDisjoint ==
    \A i \in 1..Len(pending) : ~InChain(chain, pending[i])

----------------------------------------------------------------------------
(* Properties of a node that clones (CloneSpec) *)

\* The seal digest of a block: the digest of its content, the Merkle root
\* being the root of its transactions.
SealDigest(b) ==
    BlockToHashWithContentOnly(
        [b EXCEPT !.merkle_tree = GetMerkleRoot(b.transactions)])

\* C7: every block of the chain, self-mined, received or cloned, has as hash
\* its seal digest, and that hash begins with as many '0' as its difficulty.
C7_EveryBlockSealed ==
    \A i \in 1..Len(chain) :
        /\ chain[i].hash = SealDigest(chain[i])
        /\ StartsWithZeros(chain[i].hash, chain[i].difficulty)

----------------------------------------------------------------------------
(* Amounts and fees of any sign (AmountSpec) *)

\* Correctly signed transactions as a client may build them: Transaction
\* takes amount and fee as given and from_base64 parses them with float(),
\* so either may be negative.
AmountTxPool ==
    {SignedTransaction(WalletAccount, PeerAccount, MINING_REWARDS - 1, 1),
     SignedTransaction(WalletAccount, PeerAccount, 1, -1),
     SignedTransaction(PeerAccount, WalletAccount, -1, 0),
     SignedTransaction(PeerAccount, WalletAccount, 0, 0)}

\* Transaction intake and mining while the clock runs.
AmountNext ==
    \/ Tick
    \/ MiningLoop(ADJUST_DIFFICULTY_IN_EVERY)
    \/ \E verb \in TxVerbs, t \in AmountTxPool : HandleTransaction(verb, t)

AmountSpec == Init /\ [][AmountNext]_vars

\* C11: every transaction receive_transaction admitted, in the mempool or in
\* a block the node mined, has amount >= 0 and fee >= 0.
C11_AdmittedNonNegative ==
    /\ \A i \in 1..Len(pending) : pending[i].amount >= 0 /\ pending[i].fee >= 0
    /\ \A i \in 1..Len(chain) :
          chain[i].miner = WalletAccount
          => \A k \in 1..Len(chain[i].transactions) :
                /\ chain[i].transactions[k].amount >= 0
                /\ chain[i].transactions[k].fee >= 0

----------------------------------------------------------------------------
(* Balances *)

\* The positions <<block, transaction>> of the transactions of a chain.
Positions(ch) ==
    UNION {{<<i, k>> : k \in 1..Len(ch[i].transactions)} : i \in 1..Len(ch)}

\* The sum, over the positions S of a chain, of the transactions' fee,
\* amount, or amount and fee.
SumAt(ch, S, what) ==
    LET Value(t) == CASE what = "fee" -> t.fee
                      [] what = "amount" -> t.amount
                      [] OTHER -> t.amount + t.fee
        RECURSIVE Sum(_)
        Sum(R) == IF R = {} THEN 0
                  ELSE LET p == CHOOSE q \in R : TRUE
                       IN  Value(ch[p[1]].transactions[p[2]]) + Sum(R \ {p})
    IN  Sum(S)

\* The sum of the rewards of the blocks an account mined.
SumOfRewards(ch, account) ==
    LET RECURSIVE Sum(_)
        Sum(S) == IF S = {} THEN 0
                  ELSE LET i == CHOOSE j \in S : TRUE
                       IN  ch[i].miner_rewards + Sum(S \ {i})
    IN  Sum({i \in 1..Len(ch) : ch[i].miner = account})

\* The accounts that hold or move coins.
Accounts == {WalletAccount, PeerAccount}

\* C12: the balance of an account is the rewards of the blocks it mined,
\* plus the fee of every transaction in a block it mined, minus amount and
\* fee of the transactions it sent, plus the amount of those it received;
\* so after genesis and k blocks mined alone without transactions the
\* balance is (k + 1) * MINING_REWARDS, and a block the account mined with
\* its own payments costs it the amounts only, not the fees.
C12_BalanceIsSumOfEffects ==
    \A a \in Accounts :
        /\ GetAccountBalance(chain, a)
              = SumOfRewards(chain, a)
                + SumAt(chain, {p \in Positions(chain) : chain[p[1]].miner = a},
                        "fee")
                - SumAt(chain, {p \in Positions(chain) :
                                  chain[p[1]].transactions[p[2]].sender = a},
                        "amount_and_fee")
                + SumAt(chain, {p \in Positions(chain) :
                                  chain[p[1]].transactions[p[2]].receiver = a},
                        "amount")
        /\ \A n \in 1..Len(chain) :
              LET prefix == SubSeq(chain, 1, n)
              IN  /\ (\A i \in 1..n : /\ chain[i].miner = a
                                      /\ chain[i].transactions = <<>>)
                     => GetAccountBalance(prefix, a) = n * MINING_REWARDS
                  /\ (/\ n > 1
                      /\ chain[n].miner = a
                      /\ \A k \in 1..Len(chain[n].transactions) :
                            /\ chain[n].transactions[k].sender = a
                            /\ chain[n].transactions[k].receiver # a)
                     => GetAccountBalance(prefix, a)
                          = GetAccountBalance(SubSeq(chain, 1, n - 1), a)
                            + chain[n].miner_rewards
                            - SumAt(chain, {p \in Positions(chain) : p[1] = n},
                                    "amount")

\* Genesis, a block mined alone without transactions, then a block the node
\* mined that holds its own payment with a fee.
C12_Witness ==
    /\ Len(chain) = 3
    /\ \A i \in 1..3 : chain[i].miner = WalletAccount
    /\ chain[2].transactions = <<>>
    /\ GetAccountBalance(SubSeq(chain, 1, 2), WalletAccount) = 2 * MINING_REWARDS
    /\ chain[3].transactions # <<>>
    /\ chain[3].transactions[1].sender = WalletAccount
    /\ chain[3].transactions[1].fee > 0

----------------------------------------------------------------------------
(* The coin supply (SupplySpec) *)

\* A block a peer mined on the tip and sealed over the reward it names:
\* receive_block recomputes the seal and never compares miner_rewards with
\* the configured reward.
RewardedPeerBlock(ch, diff, timestamp, transactions, miner_rewards) ==
    Sealed(Block(Last(ch).hash, NoHash, diff, 0, 0,
                 AddAllTransactions(<<>>, transactions),
                 PeerAccount, miner_rewards),
           diff, timestamp)

\* The blocks that arrive at a node whose supply is examined: one with the
\* configured reward, one with a reward of the peer's choosing.
SupplyWireBlocks(ch, diff, time) ==
    LET txs == <<SignedTransaction(WalletAccount, PeerAccount,
                                   MINING_REWARDS - 1, 1)>>
    IN  {RewardedPeerBlock(ch, diff, time, txs, reward) :
            reward \in {MINING_REWARDS, MINING_REWARDS + 1}}

\* Mining, received blocks and payments of any sign.
SupplyNext ==
    \/ MiningLoop(ADJUST_DIFFICULTY_IN_EVERY)
    \/ \E w \in SupplyWireBlocks(chain, difficulty, now) : HandleBroadcastedBlock(w)
    \/ \E verb \in TxVerbs, t \in AmountTxPool : HandleTransaction(verb, t)

SupplySpec == Init /\ [][SupplyNext]_vars

\* The sum of the balances of all accounts.
TotalBalance(ch) ==
    GetAccountBalance(ch, WalletAccount) + GetAccountBalance(ch, PeerAccount)

\* The sum of the miner_rewards fields of the blocks of a chain.
TotalRewards(ch) == SumOfRewards(ch, WalletAccount) + SumOfRewards(ch, PeerAccount)

\* C13 as stated: the balances of all accounts add up to (the length of the
\* chain + the number of mined blocks that carry a reward) * MINING_REWARDS.
C13_SupplyAsStated ==
    TotalBalance(chain)
        = (Len(chain) + Cardinality({i \in 1..Len(chain) : chain[i].miner_rewards > 0}))
          * MINING_REWARDS

\* C13: the balances of all accounts add up to the miner_rewards of the
\* blocks of the chain (amounts and fees net to zero), which is
\* Len(chain) * MINING_REWARDS when every block names the configured reward.
C13_SupplyIsChainRewards ==
    /\ TotalBalance(chain) = TotalRewards(chain)
    /\ (\A i \in 1..Len(chain) : chain[i].miner_rewards = MINING_REWARDS)
          => TotalBalance(chain) = Len(chain) * MINING_REWARDS

\* The chain holds a received block with a reward other than the configured
\* one and a block that moved an amount and a fee.
C13_Witness ==
    /\ \E i \in 1..Len(chain) : chain[i].miner_rewards # MINING_REWARDS
    /\ \E p \in Positions(chain) : chain[p[1]].transactions[p[2]].fee # 0
    /\ \E i \in 2..Len(chain) : chain[i].miner = WalletAccount

----------------------------------------------------------------------------
(* The retarget rule with the configured window and target (RetargetSpec) *)

\* The chain of a node that mined alone, one block per timestamp.
RECURSIVE MinedChain(_)
MinedChain(timestamps) ==
    IF timestamps = <<>> THEN <<>>
    ELSE LET ch == MinedChain(SubSeq(timestamps, 1, Len(timestamps) - 1))
             cand == NewCandidate(ch, <<>>, INIT_DIFFICULTY,
                                  MAX_TRANSACTIONS_IN_BLOCK)
         IN  Append(ch, Sealed(cand, INIT_DIFFICULTY, Last(timestamps)))

\* Chain lengths before, at and after a retarget point.
RetargetLengths ==
    {ADJUST_DIFFICULTY_IN_EVERY, ADJUST_DIFFICULTY_IN_EVERY + 1,
     ADJUST_DIFFICULTY_IN_EVERY + 2, 2 * ADJUST_DIFFICULTY_IN_EVERY + 1}

\* Milliseconds between the first and the last block of the window: none,
\* the target exactly, the target and 999 ms, the target and a second.
RetargetIntervals ==
    LET target == BLOCK_TIME_IN_EVERY * ADJUST_DIFFICULTY_IN_EVERY * 1000
    IN  {0, target, target + 999, target + 1000}

\* The chains adjust_difficulty is called on: the blocks up to the start of
\* the window carry timestamp 0, the later ones the interval.
RetargetChains ==
    {MinedChain([i \in 1..n |->
                    IF i <= n - ADJUST_DIFFICULTY_IN_EVERY THEN 0 ELSE interval]) :
        n \in RetargetLengths, interval \in RetargetIntervals}

RetargetInit ==
    /\ chain \in RetargetChains
    /\ difficulty \in 1..MaxDifficulty
    /\ pending = <<>>
    /\ mining = TRUE
    /\ peers = <<>>
    /\ now = Last(chain).timestamp
    /\ op = "init"
    /\ why = "accepted"
    /\ ret = "None"
    /\ resp = ""
    /\ outbox = <<>>
    /\ mpc = "idle"
    /\ new_block = NoBlock
    /\ hpc = [h \in Handlers |-> "idle"]
    /\ harg = [h \in Handlers |-> NoBlock]
    /\ NoBroadcast

\* A call of Blockchain.adjust_difficulty.
CallAdjustDifficulty ==
    /\ difficulty <= MaxDifficulty
    /\ difficulty' = AdjustDifficulty(chain, difficulty, mining,
                                      ADJUST_DIFFICULTY_IN_EVERY,
                                      BLOCK_TIME_IN_EVERY)
    /\ op' = "adjust_difficulty" /\ why' = "accepted" /\ ret' = "None"
    /\ resp' = "" /\ outbox' = <<>>
    /\ UNCHANGED <<chain, pending, mining, peers, now, threads>>

RetargetNext ==
    \/ CallAdjustDifficulty
    \/ HandleMineStart
    \/ HandleMineStop

RetargetSpec == RetargetInit /\ [][RetargetNext]_vars

\* C14: adjust_difficulty changes the difficulty only when the chain length
\* is 1 modulo ADJUST_EVERY and above ADJUST_EVERY; then it decrements the
\* difficulty (not below 1) if the average interval of the last ADJUST_EVERY
\* blocks exceeds the target seconds, and increments it by one otherwise;
\* for every other length the difficulty is unchanged.
C14_RetargetRule ==
    [][op' = "adjust_difficulty"
          => LET n == Len(chain)
                 interval_ms == Last(chain).timestamp
                                - chain[n - ADJUST_DIFFICULTY_IN_EVERY].timestamp
             IN  IF n % ADJUST_DIFFICULTY_IN_EVERY = 1 /\ n > ADJUST_DIFFICULTY_IN_EVERY
                 THEN IF interval_ms
                            > BLOCK_TIME_IN_EVERY * 1000 * ADJUST_DIFFICULTY_IN_EVERY
                      THEN difficulty' = IF difficulty > 1 THEN difficulty - 1 ELSE 1
                      ELSE difficulty' = difficulty + 1
                 ELSE difficulty' = difficulty]_vars

----------------------------------------------------------------------------
(* The miner beside a handler, with pause and resume (MinerSpec) *)

\* The blocks that arrive while the miner works: a peer's block on the tip.
MinerWireBlocks(ch, diff, time) ==
    {PeerBlock(ch, diff, "none", time,
               <<SignedTransaction(WalletAccount, PeerAccount,
                                   MINING_REWARDS - 1, 0)>>)}

\* The miner, handlers that receive blocks, and the startMine and stopMine
\* requests; the retarget window is SmallWindow blocks.
MinerNext ==
    \/ Tick
    \/ MinerAssemble
    \/ MinerSeal
    \/ MinerCheckTip
    \/ MinerAppend
    \/ MinerAdjust(SmallWindow)
    \/ \E h \in Handlers, w \in MinerWireBlocks(chain, difficulty, now) :
          HandlerCheckBlock(h, w)
    \/ \E h \in Handlers : HandlerAppendBlock(h)
    \/ HandleMineStart
    \/ HandleMineStop

MinerSpec == Init /\ [][MinerNext]_vars

\* The chain length is one at which adjust_difficulty changes the difficulty.
AtRetargetLength(ch, adjust_every) ==
    Len(ch) % adjust_every = 1 /\ Len(ch) > adjust_every

\* C15: the retarget runs after every block the miner appends, also when
\* mining was paused while that block was sealed, and it does not run after
\* a mine_block call that dropped its candidate.
C15_RetargetAfterOwnBlockOnly ==
    [][(mpc \in Returned /\ mpc' = "idle" /\ AtRetargetLength(chain, SmallWindow))
          => IF mpc = "appended"
             THEN difficulty' = AdjustDifficulty(chain, difficulty, TRUE,
                                                 SmallWindow, BLOCK_TIME_IN_EVERY)
             ELSE difficulty' = difficulty]_vars

----------------------------------------------------------------------------
(* A node that follows a mining peer (LockstepSpec) *)

\* The difficulty of a peer that mined every block of ch in its
\* mining_loop: adjust_difficulty once after each block it appended
\* (the genesis block is mined in __init__, outside the loop).
RECURSIVE MinerDifficulty(_, _)
MinerDifficulty(ch, adjust_every) ==
    IF Len(ch) <= 1 THEN INIT_DIFFICULTY
    ELSE AdjustDifficulty(ch,
                          MinerDifficulty(SubSeq(ch, 1, Len(ch) - 1), adjust_every),
                          TRUE, adjust_every, BLOCK_TIME_IN_EVERY)

\* Whether ch is a chain the peer mined.
MinedByPeer(ch) ==
    ch # <<>> /\ \A i \in 1..Len(ch) : ch[i].miner = PeerAccount

\* The chain of the mining peer as the node sees it: the node's own chain
\* when the node follows the peer, the peer's genesis block otherwise.
MinerChain(ch) == IF MinedByPeer(ch) THEN ch ELSE <<PeerGenesis>>

\* The next block the peer seals at its own difficulty and broadcasts.
MinerBlock(ch, time) ==
    PeerBlock(MinerChain(ch), MinerDifficulty(MinerChain(ch), SmallWindow),
              "none", time,
              <<SignedTransaction(PeerAccount, WalletAccount,
                                  MINING_REWARDS - 1, 0)>>)

\* The peer's answer to cloneChain (to_base64_for_exchange): its difficulty
\* and its chain.
MinerSnapshot(ch) ==
    [difficulty |-> MinerDifficulty(MinerChain(ch), SmallWindow),
     networkNodes |-> <<>>,
     chain |-> MinerChain(ch)]

\* The node clones the peer's chain, receives the blocks the peer mines,
\* mines itself, and is paused and resumed.
LockstepNext ==
    \/ Tick
    \/ MiningLoop(SmallWindow)
    \/ HandleGetCloneChainFrom(TRUE, MinerSnapshot(chain))
    \/ HandleBroadcastedBlock(MinerBlock(chain, now))
    \/ HandleMineStart
    \/ HandleMineStop

LockstepSpec == Init /\ [][LockstepNext]_vars

\* C16: whenever the node holds the chain the peer mined, its difficulty is
\* the peer's, and the next block the peer seals at its own difficulty is
\* not rejected for a difficulty mismatch.
C16_DifficultyInLockstep ==
    MinedByPeer(chain)
        => /\ difficulty = MinerDifficulty(chain, SmallWindow)
           /\ ReceiveBlockVerdict(chain, difficulty,
                                  BlockFromBase64(MinerBlock(chain, now)))
                 # "bad_difficulty"

----------------------------------------------------------------------------
(* Two nodes started apart (FreshSpec) *)

\* The first block a freshly started peer mines and broadcasts: it extends
\* the genesis block that peer mined in its own __init__, and holds nothing
\* or one payment.
FreshWireBlocks(time) ==
    {PeerBlock(<<PeerGenesis>>, INIT_DIFFICULTY, "none", time, txs) :
        txs \in {<<>>, <<SignedTransaction(PeerAccount, WalletAccount,
                                          MINING_REWARDS - 1, 0)>>}}

\* A freshly started node: it mines, peers join, payments are submitted,
\* and the peer's first block arrives.
FreshNext ==
    \/ Tick
    \/ MiningLoop(ADJUST_DIFFICULTY_IN_EVERY)
    \/ \E n \in NodePool : HandleJoinNetwork(n)
    \/ \E w \in FreshWireBlocks(now) : HandleBroadcastedBlock(w)
    \/ \E verb \in TxVerbs, t \in ConcTxPool : HandleTransaction(verb, t)

FreshSpec == Init /\ [][FreshNext]_vars

\* C17: once the broadcast of the first block a freshly started peer mined
\* has been handled by a freshly started node, the node's tip is that block.
C17_TipsAgreeAfterBroadcast ==
    [][(op' = "broadcastedBlock" /\ Len(chain) = 1)
          => \E w \in FreshWireBlocks(now) : Last(chain').hash = w.hash]_vars

\* C18: once stopMine has set the mining flag to false the miner appends
\* and broadcasts no block of its own until startMine, also when a
\* candidate was being sealed at the time of the request.
C18_PausedMinerAppendsNothing ==
    [][(mpc = "append" /\ mpc' = "appended") => mining]_vars

----------------------------------------------------------------------------
(* Draining the mempool into a candidate *)

\* The smaller of two numbers.
Min(a, b) == IF a < b THEN a ELSE b

\* How often a transaction is in a list, and where it is first.
Count(transactions, t) ==
    Cardinality({i \in 1..Len(transactions) : transactions[i] = t})

FirstIndex(transactions, t) ==
    CHOOSE i \in 1..Len(transactions) :
        /\ transactions[i] = t
        /\ \A j \in 1..(i - 1) : transactions[j] # t

\* A payment of the node's account, one for every number.
DrainTx(i) == SignedTransaction(WalletAccount, PeerAccount, i \div 3, i % 3)

\* The payments without cost, the only ones a node without chain admits.
FreeTxs ==
    <<SignedTransaction(WalletAccount, PeerAccount, 0, 0),
      SignedTransaction(PeerAccount, WalletAccount, 0, 0)>>

\* Mempools of a node with a chain: n different payments, their fees 0, 1
\* and 2 in an order that depends on the stride.
DrainMempools ==
    LET lengths == (0..3) \cup {MAX_TRANSACTIONS_IN_BLOCK - 1,
                                MAX_TRANSACTIONS_IN_BLOCK,
                                MAX_TRANSACTIONS_IN_BLOCK + 1,
                                MAX_TRANSACTIONS_IN_BLOCK + 2}
        modulus == MAX_TRANSACTIONS_IN_BLOCK + 5
    IN  {[i \in 1..n |-> DrainTx((i * stride) % modulus)] :
            n \in lengths, stride \in {1, 2, 5}}

\* A node about to assemble a candidate: with a chain of two blocks it mined
\* and a mempool of payments its balance covers, or without chain (after a
\* clone that failed) and with payments without cost.
DrainInit ==
    /\ \/ /\ chain = MinedChain(<<0, 0>>)
          /\ pending \in DrainMempools
       \/ /\ chain = <<>>
          /\ pending \in {<<>>, FreeTxs, <<FreeTxs[2], FreeTxs[1]>>}
    /\ difficulty = INIT_DIFFICULTY
    /\ mining = TRUE
    /\ peers = <<>>
    /\ now = 0
    /\ op = "init"
    /\ why = "accepted"
    /\ ret = "None"
    /\ resp = ""
    /\ outbox = <<>>
    /\ mpc = "idle"
    /\ new_block = NoBlock
    /\ hpc = [h \in Handlers |-> "idle"]
    /\ harg = [h \in Handlers |-> NoBlock]
    /\ NoBroadcast

\* One turn of the miner.
DrainNext ==
    \/ MinerAssemble
    \/ MinerSeal
    \/ MinerCheckTip
    \/ MinerAppend
    \/ MinerAdjust(ADJUST_DIFFICULTY_IN_EVERY)

DrainSpec == DrainInit /\ [][DrainNext]_vars

\* C19: assembling a candidate on a chain with a tip removes
\* min(len(mempool), MAX_TRANSACTIONS_IN_BLOCK) transactions from the
\* mempool and puts them into the candidate by descending fee, equal fees
\* in mempool order; what stays has no higher fee than anything drained;
\* the genesis candidate drains nothing.
C19_DrainByFee ==
    [][(mpc = "idle" /\ mpc' = "hashing")
          => LET drained == new_block'.transactions
                 n == Min(Len(pending), MAX_TRANSACTIONS_IN_BLOCK)
                 Removed(t) == Count(pending, t) - Count(pending', t)
                 all == {pending[i] : i \in 1..Len(pending)}
             IN  IF chain = <<>>
                 THEN drained = <<>> /\ pending' = pending
                 ELSE /\ Len(pending') = Len(pending) - n
                      /\ \A t \in all : Removed(t) >= 0
                      /\ \A k \in 1..Len(pending') : pending'[k] \in all
                      /\ \A t \in all : Removed(t) > 0 <=> Count(drained, t) = 1
                      /\ \A k \in 1..Len(drained) : drained[k] \in all
                      /\ (\A t \in all : Count(pending, t) = 1) => Len(drained) = n
                      /\ \A i, j \in 1..Len(drained) :
                            i < j => /\ drained[i].fee >= drained[j].fee
                                     /\ drained[i].fee = drained[j].fee
                                           => FirstIndex(pending, drained[i])
                                                < FirstIndex(pending, drained[j])
                      /\ \A i \in 1..Len(drained), k \in 1..Len(pending') :
                            pending'[k].fee <= drained[i].fee]_vars

\* A candidate on a chain with a tip that left transactions behind: the
\* mempool held more than MAX_TRANSACTIONS_IN_BLOCK.
C19_Witness ==
    /\ mpc = "hashing"
    /\ chain # <<>>
    /\ Len(new_block.transactions) = MAX_TRANSACTIONS_IN_BLOCK
    /\ Len(pending) = 2
    /\ \E i, j \in 1..MAX_TRANSACTIONS_IN_BLOCK :
          /\ i # j
          /\ new_block.transactions[i].fee = new_block.transactions[j].fee

----------------------------------------------------------------------------
(* A candidate that loses against a peer's block (StaleSpec) *)

\* The payments that arrive while the miner seals: small ones, so that the
\* balance covers them beside the payment of the peer's block.
StaleTxPool ==
    {SignedTransaction(WalletAccount, PeerAccount, 1, f) : f \in Fees}

\* The miner, handlers that receive the peer's block, handlers that receive
\* payments.
StaleNext ==
    \/ MinerAssemble
    \/ MinerSeal
    \/ MinerCheckTip
    \/ MinerAppend
    \/ MinerAdjust(ADJUST_DIFFICULTY_IN_EVERY)
    \/ \E h \in Handlers, w \in MinerWireBlocks(chain, difficulty, now) :
          HandlerCheckBlock(h, w)
    \/ \E h \in Handlers : HandlerAppendBlock(h)
    \/ \E h \in Handlers, t \in StaleTxPool :
          HandlerCheckTransaction(h, "doTransact", t)
    \/ \E h \in Handlers : HandlerAppendTransaction(h)

StaleSpec == Init /\ [][StaleNext]_vars

\* The transactions of a candidate that are in no chain block after the
\* candidate's parent.
NotInNewTail(ch, b) ==
    LET after == {i \in 1..Len(ch) :
                    \E p \in 1..(i - 1) : ch[p].hash = b.previous_hash}
    IN  SelectSeq(b.transactions,
                  LAMBDA t : ~\E i \in after : InTransactions(ch[i].transactions, t))

\* C20: when sealing is over and the tip is no longer the candidate's
\* parent, the candidate is neither appended nor broadcast, its transactions
\* that are in no chain block after the parent go back to the head of the
\* mempool and the others are dropped; and every candidate is assembled on
\* the tip.
C20_StaleCandidateRequeuedAtHead ==
    [][/\ (mpc = "sealed" /\ mpc' # "sealed" /\ TipChanged(chain, new_block))
          => /\ mpc' = "discarded"
             /\ chain' = chain
             /\ outbox' = <<>>
             /\ pending' = NotInNewTail(chain, new_block) \o pending
       /\ (mpc = "idle" /\ mpc' = "hashing" /\ chain # <<>>)
          => new_block'.previous_hash = Last(chain).hash]_vars


----------------------------------------------------------------------------
(* Cloning: what a failed clone leaves behind (CloneSpec) *)

\* C21: when get_blockchain_from returns False, the chain of the node is not
\* the snapshot that was rejected: it is the chain the node had before, or
\* it is empty, and no block of the rejected snapshot is left in it.
C21_RejectedSnapshotNotAdopted ==
    [][(op' = "getCloneChainFrom" /\ ret' = "False")
          => chain' \in {chain, <<>>}]_vars


\* The chains of exactly n blocks a peer may serve: a genesis block and
\* blocks that follow their parent or not, each stamped with the earliest
\* or the latest time.
RECURSIVE ServedChains(_)
ServedChains(n) ==
    IF n = 1
    THEN {<<PeerBlock(<<>>, INIT_DIFFICULTY, "none", ts, <<>>)>> :
            ts \in {0, MaxTime}}
    ELSE {Append(c, PeerBlock(c, INIT_DIFFICULTY, defect, ts, <<>>)) :
            c \in ServedChains(n - 1), defect \in {"none", "stale_parent"},
            ts \in {0, MaxTime}}

\* The answers to cloneChain of a peer whose chain was never examined.
ServedSnapshots ==
    {[difficulty |-> INIT_DIFFICULTY, networkNodes |-> <<>>, chain |-> c] :
        c \in UNION {ServedChains(n) : n \in 1..MaxChain}}

\* A node that is asked to clone, over and over, between mining requests.
SnapshotNext ==
    \/ \E reachable \in BOOLEAN, snapshot \in ServedSnapshots :
          HandleGetCloneChainFrom(reachable, snapshot)
    \/ HandleMineStart
    \/ HandleMineStop

SnapshotSpec == Init /\ [][SnapshotNext]_vars

\* C22: a clone whose target answered succeeds exactly when the snapshot
\* has fewer than three blocks, or when for every i from 0 to n-3 block i+1
\* names the hash of block i and is not older than it; the last two blocks
\* are not compared.
C22_CloneSucceedsIffPrefixLinked ==
    [][(op' = "getCloneChainFrom" /\ why' # "unreachable")
          => (ret' = "True"
                <=> \/ Len(chain') < 3
                    \/ \A i \in 0..(Len(chain') - 3) :
                          /\ chain'[i + 2].previous_hash = chain'[i + 1].hash
                          /\ chain'[i + 2].timestamp >= chain'[i + 1].timestamp)]_vars

\* A clone that succeeded although the last block does not follow the one
\* before it.
C22_Witness ==
    /\ op = "getCloneChainFrom" /\ ret = "True"
    /\ Len(chain) >= 3
    /\ \/ Last(chain).previous_hash # chain[Len(chain) - 1].hash
       \/ Last(chain).timestamp < chain[Len(chain) - 1].timestamp


----------------------------------------------------------------------------
(* Cloning while the node's own miner runs (CloneRaceSpec) *)

\* The answers of a peer that serves its genesis block, alone or followed
\* by one block it mined.
RaceSnapshots ==
    {[difficulty |-> INIT_DIFFICULTY, networkNodes |-> <<>>, chain |-> c] :
        c \in {<<PeerGenesis>>,
                <<PeerGenesis,
                  PeerBlock(<<PeerGenesis>>, INIT_DIFFICULTY, "none", 0, <<>>)>>}}

\* The node still holds the chain that starts with its own genesis block.
OwnChain ==
    /\ chain # <<>>
    /\ chain[1].miner = WalletAccount
    /\ chain[1].previous_hash = GenesisPreviousHash

\* The requests of a node that clones, once, while its miner works on a
\* candidate.
CloneRaceNext ==
    \/ MinerAssemble
    \/ MinerSeal
    \/ MinerCheckTip
    \/ MinerAppend
    \/ MinerAdjust(ADJUST_DIFFICULTY_IN_EVERY)
    \/ \E t \in ConcTxPool : HandleTransaction("doTransact", t)
    \/ /\ OwnChain
       /\ \E reachable \in BOOLEAN, snapshot \in RaceSnapshots :
             HandleGetCloneChainFrom(reachable, snapshot)
    \/ HandleMineStart

CloneRaceSpec == Init /\ [][CloneRaceNext]_vars

\* C23: once a clone has succeeded, and until the next request, whatever
\* the node's own miner does next leaves the chain as it was served and the
\* mempool empty, and mining stays off.
C23_CloneSurvivesOwnMiner ==
    [][(op = "getCloneChainFrom" /\ ret = "True" /\ mpc' # mpc)
          => (chain' = chain /\ pending' = <<>> /\ ~mining')]_vars


----------------------------------------------------------------------------
(* Re-delivery of items the node already accepted (ConcSpec) *)

\* The transaction sits in the candidate the miner is working on
\* (mine_block lines 73-95).
InCandidate(t) ==
    /\ mpc \in {"hashing", "sealed", "append"}
    /\ InTransactions(new_block.transactions, t)

\* C24: a transaction the node has accepted and still holds, in its
\* mempool, in its chain or in the candidate of its miner, does not pass the
\* checks of receive_transaction when it is delivered again.
C24_HeldTransactionNotReadmitted ==
    [][\A h \in Handlers :
          (hpc[h] = "idle" /\ hpc'[h] = "receive_transaction")
              => ~(\/ InTransactions(pending, harg'[h])
                   \/ InChain(chain, harg'[h])
                   \/ InCandidate(harg'[h]))]_vars


----------------------------------------------------------------------------
(* Requests the handler cannot decode (MalformedSpec) *)

\* The verbs whose payload is restored into a transaction, a block or the
\* node to clone from (start_blockchain.py lines 98-148).
PayloadVerbs ==
    {"doTransact", "broadcastedTransaction", "broadcastedBlock",
     "getCloneChainFrom"}

\* client_handler with a payload that is not the encoding of the expected
\* record.  Transaction, Block and NetworkNode catch the failure of
\* from_base64 in their constructor and hand out an object without fields;
\* the first read of a field raises AttributeError, which client_handler
\* catches at line 177 without sending a reply.  For getCloneChainFrom the
\* field is read at blockchain.py line 307, after mining was stopped and
\* the chain and the mempool were erased (lines 299-305).
HandleUndecodable(verb) ==
    /\ op' = verb /\ why' = "undecodable"
    /\ ret' = "raise" /\ resp' = "" /\ outbox' = <<>>
    /\ IF verb = "getCloneChainFrom"
       THEN /\ mining' = FALSE
            /\ pending' = IF chain # <<>> THEN <<>> ELSE pending
            /\ chain' = <<>>
       ELSE UNCHANGED <<chain, pending, mining>>
    /\ UNCHANGED <<difficulty, peers, now, threads>>

\* client_handler with a verb it does not know, with or without a payload
\* (lines 150-153 and 172-175).
HandleUnknown ==
    /\ op' = "unknown" /\ why' = "unknown_verb"
    /\ ret' = "None" /\ resp' = "Error" /\ outbox' = <<>>
    /\ UNCHANGED <<chain, pending, difficulty, mining, peers, now, threads>>

MalformedNext ==
    \/ Tick
    \/ MiningLoop(ADJUST_DIFFICULTY_IN_EVERY)
    \/ \E t \in ConcTxPool : HandleTransaction("doTransact", t)
    \/ \E verb \in PayloadVerbs : HandleUndecodable(verb)
    \/ HandleUnknown
    \/ HandleMineStart
    \/ HandleMineStop

MalformedSpec == Init /\ [][MalformedNext]_vars

\* C25: a request with an unknown verb or with a payload that cannot be
\* decoded is answered with Error and changes neither chain, mempool, peer
\* set, difficulty nor the mining flag.
C25_MalformedAnsweredError ==
    [][(op' = "unknown" \/ why' = "undecodable")
          => /\ resp' = "Error"
             /\ UNCHANGED <<chain, pending, peers, difficulty, mining>>]_vars

\* C26: every request the handler has read is answered with a response
\* line before the connection is closed.
C26_EveryRequestAnswered ==
    [][op' \in PayloadVerbs \cup {"unknown", "startMine", "stopMine"}
          => resp' # ""]_vars


----------------------------------------------------------------------------
(* Peer addresses that arrive by gossip (PeerSpec) *)

\* client_handler, verb broadcastedNewNode (start_blockchain.py lines
\* 141-148): add_network_nodes, and nothing else.
HandleBroadcastedNewNode(n) ==
    /\ op' = "broadcastedNewNode"
    /\ outbox' = <<>>
    /\ IF IsNewNode(peers, n)
       THEN /\ peers' = Append(peers, n)
            /\ why' = "accepted" /\ ret' = "True" /\ resp' = "Ok"
       ELSE /\ why' = "duplicate" /\ ret' = "False" /\ resp' = "Dup"
            /\ UNCHANGED peers
    /\ UNCHANGED <<chain, pending, difficulty, mining, now, threads>>

\* The addresses that are announced to a node: one more than it needs to
\* have a peer and to learn of another.
GossipPool == {NetworkNode("host", port) : port \in 1..(MaxPeers + 1)}

PeerNext ==
    \/ Tick
    \/ MiningLoop(ADJUST_DIFFICULTY_IN_EVERY)
    \/ \E t \in ConcTxPool : HandleTransaction("broadcastedTransaction", t)
    \/ \E n \in GossipPool : HandleJoinNetwork(n)
    \/ \E n \in GossipPool : HandleBroadcastedNewNode(n)

PeerSpec == Init /\ [][PeerNext]_vars

\* C27: an address that is new to a node with peers is broadcast to them as
\* broadcastedNewNode, whether it came by joinNetwork or by
\* broadcastedNewNode, and an address the node holds is not broadcast.
C27_NewAddressRebroadcast ==
    [][(op' \in {"joinNetwork", "broadcastedNewNode"} /\ peers # <<>>)
          => IF resp' = "Ok"
             THEN \E i \in 1..Len(outbox') : outbox'[i][1] = "broadcastedNewNode"
             ELSE outbox' = <<>>]_vars


----------------------------------------------------------------------------
(* broadcast_network_message, peer by peer (BroadcastSpec) *)

\* An eviction that forgets every failed node but the first.
RemoveNetworkNodesMutant(prs, to_remove) ==
    IF to_remove = <<>> THEN prs
    ELSE SelectSeq(prs, LAMBDA n : n # to_remove[1])

\* broadcast_network_message lines 567-569: remove_network_nodes for every
\* node of nodes_to_remove.
RemoveNetworkNodes(prs, to_remove) ==
    SelectSeq(prs, LAMBDA n : ~\E i \in 1..Len(to_remove) : to_remove[i] = n)

\* What is broadcast.
Messages == {<<"broadcastedNewNode", n>> : n \in GossipPool}

\* broadcast_network_message lines 536-539: nodes_to_remove is empty and the
\* loop over network_nodes starts.
BroadcastStart(verb, item) ==
    /\ bpc = "idle"
    /\ outbox' = <<<<verb, item>>>>
    /\ bstart' = peers
    /\ netlog' = <<>>
    /\ nodes_to_remove' = <<>>
    /\ IF peers = <<>>
       THEN bpc' = "evict" /\ bidx' = 0
       ELSE bpc' = "connect" /\ bidx' = 1
    /\ UNCHANGED <<chain, pending, difficulty, mining, peers, now,
                   op, why, ret, resp, mpc, new_block, hpc, harg, sockets>>

\* The for statement of line 541 moves to the next node, or ends.
BroadcastAdvance ==
    IF bidx < Len(peers)
    THEN bpc' = "connect" /\ bidx' = bidx + 1
    ELSE bpc' = "evict" /\ bidx' = bidx

\* Lines 542-545 and 564-565: the node is connected; NetworkNode.connect
\* leaves socket at None when it fails, and the node is then noted for
\* removal without a send.
BroadcastConnect(connected) ==
    /\ bpc = "connect"
    /\ IF connected
       THEN /\ sockets' = sockets \cup {peers[bidx]}
            /\ bpc' = "send"
            /\ UNCHANGED <<bidx, nodes_to_remove, netlog>>
       ELSE /\ nodes_to_remove' = Append(nodes_to_remove, peers[bidx])
            /\ netlog' = Append(netlog, <<peers[bidx], "connect_failed">>)
            /\ BroadcastAdvance
            /\ UNCHANGED sockets
    /\ UNCHANGED <<chain, pending, difficulty, mining, peers, now, op, why,
                   ret, resp, outbox, mpc, new_block, hpc, harg, bstart>>

\* Lines 547-551 and 560-563: sendall; when it raises the node is noted for
\* removal, and its socket is left as it is.
BroadcastSend(sent) ==
    /\ bpc = "send"
    /\ IF sent
       THEN /\ netlog' = Append(netlog, <<peers[bidx], "sent">>)
            /\ bpc' = "recv"
            /\ UNCHANGED <<bidx, nodes_to_remove>>
       ELSE /\ nodes_to_remove' = Append(nodes_to_remove, peers[bidx])
            /\ netlog' = Append(netlog, <<peers[bidx], "send_failed">>)
            /\ BroadcastAdvance
    /\ UNCHANGED <<chain, pending, difficulty, mining, peers, now, op, why,
                   ret, resp, outbox, mpc, new_block, hpc, harg, bstart,
                   sockets>>

\* Lines 556-563: recv returns and the node is disconnected, or recv raises
\* and the node is noted for removal, its socket left as it is.
BroadcastReceive(answered) ==
    /\ bpc = "recv"
    /\ IF answered
       THEN /\ sockets' = sockets \ {peers[bidx]}
            /\ UNCHANGED <<nodes_to_remove, netlog>>
       ELSE /\ nodes_to_remove' = Append(nodes_to_remove, peers[bidx])
            /\ netlog' = Append(netlog, <<peers[bidx], "receive_failed">>)
            /\ UNCHANGED sockets
    /\ BroadcastAdvance
    /\ UNCHANGED <<chain, pending, difficulty, mining, peers, now, op, why,
                   ret, resp, outbox, mpc, new_block, hpc, harg, bstart>>

\* Line 556 with a peer that accepted the connection and sends nothing: the
\* socket was created at network_node.py line 87 without a timeout, so recv
\* does not return.
BroadcastBlocked ==
    /\ bpc = "recv"
    /\ bpc' = "blocked"
    /\ netlog' = Append(netlog, <<peers[bidx], "silent">>)
    /\ UNCHANGED <<chain, pending, difficulty, mining, peers, now, op, why,
                   ret, resp, outbox, mpc, new_block, hpc, harg, bidx,
                   nodes_to_remove, bstart, sockets>>

\* Lines 567-569: the noted nodes leave network_nodes, and the broadcast
\* returns.
BroadcastEvict ==
    /\ bpc = "evict"
    /\ peers' = RemoveNetworkNodes(peers, nodes_to_remove)
    /\ bpc' = "idle" /\ bidx' = 0
    /\ nodes_to_remove' = <<>>
    /\ op' = "broadcast_network_message" /\ why' = "accepted"
    /\ ret' = "None" /\ resp' = ""
    /\ UNCHANGED <<chain, pending, difficulty, mining, now, outbox,
                   mpc, new_block, hpc, harg, bstart, netlog, sockets>>

\* A node that learns of peers and broadcasts to them, one broadcast at a
\* time.
BroadcastNext ==
    \/ /\ bpc = "idle"
       /\ \E n \in GossipPool : HandleBroadcastedNewNode(n)
    \/ \E m \in Messages : BroadcastStart(m[1], m[2])
    \/ \E connected \in BOOLEAN : BroadcastConnect(connected)
    \/ \E sent \in BOOLEAN : BroadcastSend(sent)
    \/ \E answered \in BOOLEAN : BroadcastReceive(answered)
    \/ BroadcastBlocked
    \/ BroadcastEvict

BroadcastSpec == Init /\ [][BroadcastNext]_vars


\* The peers on which connect, send or receive failed during the broadcast.
FailedPeers ==
    {netlog[i][1] : i \in {j \in 1..Len(netlog) :
        netlog[j][2] \in {"connect_failed", "send_failed", "receive_failed"}}}

\* How often the message was sent to peer n during the broadcast.
TimesSent(n) ==
    Cardinality({i \in 1..Len(netlog) : netlog[i] = <<n, "sent">>})

\* The peers in the order in which the broadcast turned to them: every peer
\* leaves one entry for its connect or its send.
Attempts ==
    LET first == SelectSeq(netlog, LAMBDA e : e[2] # "receive_failed")
    IN  [i \in 1..Len(first) |-> first[i][1]]

\* C28: when a broadcast has returned, it has turned to every peer of the
\* peer set it started with, in order; the peer set is that set without
\* exactly the peers whose connect, send or receive failed; and every other
\* peer was sent the message exactly once.
C28_BroadcastReachesAndPrunes ==
    (op = "broadcast_network_message" /\ bpc = "idle")
        => /\ Attempts = bstart
           /\ peers = SelectSeq(bstart, LAMBDA n : n \notin FailedPeers)
           /\ \A i \in 1..Len(bstart) :
                 bstart[i] \notin FailedPeers => TimesSent(bstart[i]) = 1

\* A broadcast that returned after its first peer failed and a later peer
\* answered.
C28_Witness ==
    /\ op = "broadcast_network_message" /\ bpc = "idle"
    /\ Len(bstart) >= 2
    /\ bstart[1] \in FailedPeers
    /\ bstart[2] \notin FailedPeers
    /\ peers = <<bstart[2]>>


\* The steps of the thread that broadcasts.
BroadcastStep ==
    \/ \E connected \in BOOLEAN : BroadcastConnect(connected)
    \/ \E sent \in BOOLEAN : BroadcastSend(sent)
    \/ \E answered \in BOOLEAN : BroadcastReceive(answered)
    \/ BroadcastBlocked
    \/ BroadcastEvict

\* The broadcasting thread is scheduled again and again: whenever it can
\* take a step, it takes one.
FairBroadcastSpec == BroadcastSpec /\ WF_vars(BroadcastStep)

\* C29: a broadcast that has started returns.
C29_BroadcastTerminates == (bpc # "idle") ~> (bpc = "idle")


\* C30: when no broadcast is under way, no socket that the node opened
\* towards a peer or a clone target is left unclosed.
C30_NoSocketLeftOpen == bpc = "idle" => sockets = {}


----------------------------------------------------------------------------
(* Peer addresses announced to two handlers at once (GossipRaceSpec) *)

\* add_network_nodes lines 497-499 in handler h: the address is compared
\* with every entry of network_nodes.  A known address is answered at once.
HandlerCheckNode(h, n) ==
    /\ hpc[h] = "idle"
    /\ IF IsNewNode(peers, n)
       THEN /\ hpc' = [hpc EXCEPT ![h] = "add_network_nodes"]
            /\ harg' = [harg EXCEPT ![h] = n]
            /\ UNCHANGED <<op, why, ret, resp, outbox>>
       ELSE /\ op' = "broadcastedNewNode" /\ why' = "duplicate"
            /\ ret' = "False" /\ resp' = "Dup" /\ outbox' = <<>>
            /\ UNCHANGED <<hpc, harg>>
    /\ UNCHANGED <<chain, pending, difficulty, mining, peers, now,
                   mpc, new_block, broadcasting>>

\* add_network_nodes lines 501-502 in handler h: the address is appended,
\* and the handler replies.
HandlerAppendNode(h) ==
    /\ hpc[h] = "add_network_nodes"
    /\ peers' = Append(peers, harg[h])
    /\ op' = "broadcastedNewNode" /\ why' = "accepted"
    /\ ret' = "True" /\ resp' = "Ok" /\ outbox' = <<>>
    /\ hpc' = [hpc EXCEPT ![h] = "idle"]
    /\ harg' = [harg EXCEPT ![h] = NoBlock]
    /\ UNCHANGED <<chain, pending, difficulty, mining, now,
                   mpc, new_block, broadcasting>>

GossipRaceNext ==
    \/ \E h \in Handlers, n \in GossipPool : HandlerCheckNode(h, n)
    \/ \E h \in Handlers : HandlerAppendNode(h)
    \/ \E reachable \in BOOLEAN, snapshot \in Snapshots :
          /\ OwnChain
          /\ HandleGetCloneChainFrom(reachable, snapshot)

GossipRaceSpec == Init /\ [][GossipRaceNext]_vars

\* C31: no two entries of the peer set have the same digest.
C31_PeerSetHasNoDuplicate ==
    \A i, j \in 1..Len(peers) :
        NodeToHash(peers[i]) = NodeToHash(peers[j]) => i = j


----------------------------------------------------------------------------
(* Encodings *)

\* C32: a block of the chain, sent in its encoding (every field is written
\* by Block.to_base64) and restored by Block.from_base64, has the same
\* field values as before, the Merkle root among them.
C32_BlockRoundTrip ==
    \A i \in 1..Len(chain) : BlockFromBase64(chain[i]) = chain[i]


----------------------------------------------------------------------------
(* The Merkle root of a block while transactions come and go (MerkleSpec) *)

\* The transactions that are put into a block: two payments that differ in
\* the fee, one in the other direction, and one that differs from the first
\* in nothing but its signature.
MerkleTxPool ==
    {SignedTransaction(WalletAccount, PeerAccount, MINING_REWARDS - 1, f) :
        f \in Fees}
    \cup {SignedTransaction(PeerAccount, WalletAccount, MINING_REWARDS - 1, 0),
          ForgedTransaction(WalletAccount, PeerAccount, MINING_REWARDS - 1, 0)}

\* Block() (block.py lines 47-59): a block without transactions.
BlockNew ==
    /\ new_block = NoBlock
    /\ new_block' = NewCandidate(chain, <<>>, difficulty,
                                 MAX_TRANSACTIONS_IN_BLOCK)
    /\ op' = "Block" /\ why' = "accepted" /\ ret' = "None"
    /\ UNCHANGED <<chain, pending, difficulty, mining, peers, now, resp,
                   outbox, mpc, hpc, harg, broadcasting>>

\* Block.add_transaction (lines 105-124): a transaction the block holds is
\* refused; any other is appended and the tree is built anew.
BlockAddTransaction(t) ==
    /\ new_block # NoBlock
    /\ LET transactions == AddTransaction(new_block.transactions, t)
       IN  IF transactions = new_block.transactions
           THEN /\ why' = "duplicate" /\ ret' = "False"
                /\ UNCHANGED new_block
           ELSE /\ why' = "accepted" /\ ret' = "True"
                /\ new_block' =
                      [new_block EXCEPT
                          !.transactions = transactions,
                          !.merkle_tree = GetMerkleRoot(transactions)]
    /\ op' = "add_transaction"
    /\ UNCHANGED <<chain, pending, difficulty, mining, peers, now, resp,
                   outbox, mpc, hpc, harg, broadcasting>>

\* Block.del_transaction(location) (lines 137-142): the transaction at the
\* location is removed and the tree is built anew.
BlockDelTransaction(location) ==
    /\ new_block # NoBlock
    /\ IF location \in 1..Len(new_block.transactions)
       THEN LET transactions ==
                    [i \in 1..(Len(new_block.transactions) - 1) |->
                        IF i < location THEN new_block.transactions[i]
                        ELSE new_block.transactions[i + 1]]
            IN  /\ new_block' =
                      [new_block EXCEPT
                          !.transactions = transactions,
                          !.merkle_tree = GetMerkleRoot(transactions)]
                /\ why' = "accepted" /\ ret' = "True"
       ELSE /\ why' = "no_such_location" /\ ret' = "False"
            /\ UNCHANGED new_block
    /\ op' = "del_transaction"
    /\ UNCHANGED <<chain, pending, difficulty, mining, peers, now, resp,
                   outbox, mpc, hpc, harg, broadcasting>>

MerkleNext ==
    \/ BlockNew
    \/ \E t \in MerkleTxPool : BlockAddTransaction(t)
    \/ \E location \in 1..(Cardinality(MerkleTxPool) + 1) :
          BlockDelTransaction(location)

MerkleSpec == Init /\ [][MerkleNext]_vars

\* The root as the claim words it: nodes are paired from the left, a last
\* node without a neighbour is paired with itself, until one node is left.
RECURSIVE PairedUp(_)
PairedUp(nodes) ==
    IF nodes = <<>> THEN <<>>
    ELSE IF Len(nodes) = 1 THEN <<HashString(<<nodes[1], nodes[1]>>)>>
    ELSE <<HashString(<<nodes[1], nodes[2]>>)>> \o PairedUp(Tail(Tail(nodes)))

RECURSIVE RootOfLeaves(_)
RootOfLeaves(leaves) ==
    IF leaves = <<>> THEN HashString(<<>>)
    ELSE IF Len(leaves) = 1 THEN leaves[1]
    ELSE RootOfLeaves(PairedUp(leaves))

\* The orders in which the transactions can be listed.
Reorderings(transactions) ==
    {[i \in 1..Len(transactions) |-> transactions[f[i]]] :
        f \in {g \in [1..Len(transactions) -> 1..Len(transactions)] :
                  \A i, j \in 1..Len(transactions) : g[i] = g[j] => i = j}}

\* C33: after any add_transaction or del_transaction the Merkle root of the
\* block is the root of its current transaction list: the digest of the
\* empty string for no transaction, the leaf for one, otherwise what is
\* left after pairing neighbours level by level, an odd last node with
\* itself; and the same transactions in another order have another root.
C33_MerkleRootOfCurrentList ==
    new_block # NoBlock =>
        LET transactions == new_block.transactions
            leaves == [i \in 1..Len(transactions) |-> TxToHash(transactions[i])]
        IN  /\ new_block.merkle_tree = RootOfLeaves(leaves)
            /\ \A other \in Reorderings(transactions) :
                  other # transactions
                      => GetMerkleRoot(other) # new_block.merkle_tree

\* A block that holds three transactions after one was deleted.
C33_Witness ==
    /\ new_block # NoBlock
    /\ op = "del_transaction" /\ ret = "True"
    /\ Len(new_block.transactions) = 3


\* The lists that differ from the block's list in the signature of one
\* transaction and in nothing else.
ResignedLists(transactions) ==
    UNION {{[transactions EXCEPT ![i] = t] :
               t \in {u \in MerkleTxPool :
                         /\ TxToBase64WithContentOnly(u)
                               = TxToBase64WithContentOnly(transactions[i])
                         /\ u.signature # transactions[i].signature}} :
           i \in 1..Len(transactions)}

\* C35 as stated: the leaves are digests of the content without the
\* signature, so a list that differs only in signature bytes has the same
\* Merkle root.
C35_RootIgnoresSignature ==
    new_block # NoBlock =>
        \A other \in ResignedLists(new_block.transactions) :
            GetMerkleRoot(other) = new_block.merkle_tree

\* C35: the leaves are the full digests of the transactions, signature
\* included: the root of a single transaction is its to_hash, and a list
\* that differs only in the signature of one transaction has another root.
C35_RootCoversSignature ==
    new_block # NoBlock =>
        /\ Len(new_block.transactions) = 1
              => new_block.merkle_tree = TxToHash(new_block.transactions[1])
        /\ \A other \in ResignedLists(new_block.transactions) :
              GetMerkleRoot(other) # new_block.merkle_tree

\* A block of two transactions, one of which exists with another signature.
C35_Witness ==
    /\ new_block # NoBlock
    /\ op = "add_transaction" /\ ret = "True"
    /\ Len(new_block.transactions) = 2
    /\ ResignedLists(new_block.transactions) # {}


----------------------------------------------------------------------------
(* The difficulty of a node that clones and mines (DifficultySpec) *)

\* The answers to cloneChain of a peer whose difficulty field is the
\* initial one or lies below it; from_base64_of_exchange takes the field
\* with int() (lines 748-749).
ServedDifficulties == {INIT_DIFFICULTY - 1, INIT_DIFFICULTY}

DifficultySnapshots ==
    {[difficulty |-> d, networkNodes |-> <<>>, chain |-> c] :
        d \in ServedDifficulties,
        c \in {c \in PeerChains : Len(c) <= 2 /\ CloneIntegrity(c)}}

DifficultyNext ==
    \/ Tick
    \/ MiningLoop(ADJUST_DIFFICULTY_IN_EVERY)
    \/ \E reachable \in BOOLEAN, snapshot \in DifficultySnapshots :
          /\ OwnChain
          /\ HandleGetCloneChainFrom(reachable, snapshot)
    \/ HandleMineStart

DifficultySpec == Init /\ [][DifficultyNext]_vars

\* C34: the difficulty is at least 1 in every state.
C34_DifficultyAtLeastOne == difficulty >= 1


\* C36: after construction the chain is never empty, a failed or running
\* clone included.
C36_ChainNeverEmpty == Len(chain) >= 1


\* C37: the mempool holds each transaction digest at most once.
C37_MempoolHasNoDuplicate ==
    \A i, j \in 1..Len(pending) :
        TxToHash(pending[i]) = TxToHash(pending[j]) => i = j


\* The addresses that appear in a chain as miner, sender or receiver.
AddressesOf(ch) ==
    {ch[i].miner : i \in 1..Len(ch)}
    \cup UNION {UNION {{ch[i].transactions[k].sender,
                        ch[i].transactions[k].receiver} :
                          k \in 1..Len(ch[i].transactions)} :
                   i \in 1..Len(ch)}

\* The sum of the balances of a set of addresses.
RECURSIVE BalanceOfAll(_, _)
BalanceOfAll(ch, addresses) ==
    IF addresses = {} THEN 0
    ELSE LET a == CHOOSE x \in addresses : TRUE
         IN  GetAccountBalance(ch, a) + BalanceOfAll(ch, addresses \ {a})

\* The sum of the miner_rewards of the blocks of a chain, block by block.
RECURSIVE RewardsOfChain(_)
RewardsOfChain(ch) ==
    IF ch = <<>> THEN 0 ELSE Head(ch).miner_rewards + RewardsOfChain(Tail(ch))

\* C38: coins are conserved: the balances of all addresses that appear in
\* the chain as miner, sender or receiver add up to the miner_rewards of
\* all blocks of the chain.
C38_CoinsConserved ==
    BalanceOfAll(chain, AddressesOf(chain)) = RewardsOfChain(chain)

\* Both accounts mined, and a block moved an amount and paid a fee from
\* one account to the other.
C38_Witness ==
    /\ {chain[i].miner : i \in 1..Len(chain)} = Accounts
    /\ \E p \in Positions(chain) :
          LET t == chain[p[1]].transactions[p[2]]
          IN  /\ t.amount > 0 /\ t.fee > 0
              /\ t.sender # t.receiver
              /\ chain[p[1]].miner = t.receiver


----------------------------------------------------------------------------
(* Several payments of one sender waiting in the mempool (OverspendSpec) *)

\* A payment that funds the peer, and two payments of the peer that its
\* balance covers one at a time and not together.
OverspendTxPool ==
    {SignedTransaction(WalletAccount, PeerAccount, MINING_REWARDS - 1, 0),
     SignedTransaction(PeerAccount, WalletAccount, MINING_REWARDS - 1, 0),
     SignedTransaction(PeerAccount, WalletAccount, MINING_REWARDS - 2, 1)}

OverspendNext ==
    \/ MiningLoop(ADJUST_DIFFICULTY_IN_EVERY)
    \/ \E verb \in TxVerbs, t \in OverspendTxPool : HandleTransaction(verb, t)

OverspendSpec == Init /\ [][OverspendNext]_vars

\* C40: no account has a negative balance on the chain.
C40_NoNegativeBalance ==
    \A a \in AddressesOf(chain) : GetAccountBalance(chain, a) >= 0


----------------------------------------------------------------------------
(* Two threads that broadcast to the same peers (SharedSocketSpec) *)

\* NetworkNode keeps one socket per node object (network_node.py line 87),
\* and network_nodes holds one object per peer, so every thread that
\* broadcasts works on the same socket attribute.  `sockets` is the set of
\* nodes whose socket is not None; netlog records which thread connected,
\* wrote to and closed which socket.  The locals of a broadcasting thread
\* (message, loop index, node, node_socket, nodes_to_remove) are in harg.

\* The sockets are numbered in the order of their creation.
NewSocket ==
    Cardinality({i \in 1..Len(netlog) : netlog[i].event = "connected"}) + 1

\* The socket attribute of a node that is connected.
SocketOf(n) ==
    LET made == {i \in 1..Len(netlog) :
                    netlog[i].event = "connected" /\ netlog[i].node = n}
    IN  netlog[CHOOSE i \in made : \A j \in made : j <= i].socket

\* Whether socket.close() was called on a socket.
IsClosed(s) ==
    \E i \in 1..Len(netlog) : netlog[i].event = "closed" /\ netlog[i].socket = s

\* The messages the handler threads broadcast (receive_transaction, line 264).
ThreadMessages == {<<"broadcastedTransaction", t>> : t \in ConcTxPool}

\* The for statement of line 541 takes the next node, or the loop ends.
ThreadAdvance(h, locals) ==
    IF locals.idx < Len(peers)
    THEN /\ hpc' = [hpc EXCEPT ![h] = "is_connected"]
         /\ harg' = [harg EXCEPT ![h] =
                        [locals EXCEPT !.idx = locals.idx + 1,
                                       !.node = peers[locals.idx + 1]]]
    ELSE /\ hpc' = [hpc EXCEPT ![h] = "remove_network_nodes"]
         /\ harg' = [harg EXCEPT ![h] = locals]

\* The node is noted for removal (lines 563 and 565).
ThreadNote(h) ==
    ThreadAdvance(h, [harg[h] EXCEPT
                         !.nodes_to_remove = Append(@, harg[h].node)])

\* Lines 536-541: a thread enters broadcast_network_message.
ThreadBroadcastStart(h, m) ==
    /\ hpc[h] = "idle"
    /\ ~\E i \in 1..Len(netlog) : netlog[i].thread = h
    /\ peers # <<>>
    /\ hpc' = [hpc EXCEPT ![h] = "is_connected"]
    /\ harg' = [harg EXCEPT ![h] =
                   [message |-> m, idx |-> 1, node |-> peers[1],
                    node_socket |-> 0, nodes_to_remove |-> <<>>]]
    /\ netlog' = Append(netlog, [node |-> peers[1], event |-> "entered",
                                 thread |-> h, socket |-> 0])
    /\ UNCHANGED <<chain, pending, difficulty, mining, peers, now, op, why,
                   ret, resp, outbox, mpc, new_block, bpc, bidx,
                   nodes_to_remove, bstart, sockets>>

\* Line 542: node.is_connected().
ThreadIsConnected(h) ==
    /\ hpc[h] = "is_connected"
    /\ hpc' = [hpc EXCEPT ![h] = IF harg[h].node \in sockets
                                 THEN "get_node_socket" ELSE "connect"]
    /\ UNCHANGED <<chain, pending, difficulty, mining, peers, now, op, why,
                   ret, resp, outbox, mpc, new_block, harg, broadcasting>>

\* Line 543: node.connect() (network_node.py lines 86-92) makes a socket
\* when the node has none, and keeps the one it has otherwise.
ThreadConnect(h, connected) ==
    /\ hpc[h] = "connect"
    /\ IF harg[h].node \notin sockets /\ connected
       THEN /\ sockets' = sockets \cup {harg[h].node}
            /\ netlog' = Append(netlog, [node |-> harg[h].node,
                                         event |-> "connected",
                                         thread |-> h, socket |-> NewSocket])
       ELSE UNCHANGED <<sockets, netlog>>
    /\ hpc' = [hpc EXCEPT ![h] = "get_node_socket"]
    /\ UNCHANGED <<chain, pending, difficulty, mining, peers, now, op, why,
                   ret, resp, outbox, mpc, new_block, harg, bpc, bidx,
                   nodes_to_remove, bstart>>

\* Lines 545-547 and 564-565: a node without socket is noted for removal;
\* otherwise the thread takes the node's socket, whoever made it.
ThreadGetNodeSocket(h) ==
    /\ hpc[h] = "get_node_socket"
    /\ IF harg[h].node \in sockets
       THEN /\ hpc' = [hpc EXCEPT ![h] = "sendall"]
            /\ harg' = [harg EXCEPT ![h].node_socket = SocketOf(harg[h].node)]
       ELSE ThreadNote(h)
    /\ UNCHANGED <<chain, pending, difficulty, mining, peers, now, op, why,
                   ret, resp, outbox, mpc, new_block, broadcasting>>


\* Lines 550-551 and 560-563: sendall on the socket the thread took; it
\* raises on a socket that was closed, and the node is noted for removal.
ThreadSend(h, sent) ==
    /\ hpc[h] = "sendall"
    /\ IF sent /\ ~IsClosed(harg[h].node_socket)
       THEN /\ netlog' = Append(netlog, [node |-> harg[h].node,
                                         event |-> "sent", thread |-> h,
                                         socket |-> harg[h].node_socket])
            /\ hpc' = [hpc EXCEPT ![h] = "recv"]
            /\ UNCHANGED harg
       ELSE /\ ThreadNote(h)
            /\ UNCHANGED netlog
    /\ UNCHANGED <<chain, pending, difficulty, mining, peers, now, op, why,
                   ret, resp, outbox, mpc, new_block, bpc, bidx,
                   nodes_to_remove, bstart, sockets>>

\* Lines 556-563: recv on the socket the thread took, then
\* node.disconnect(), which closes whatever socket the node has at that
\* moment (network_node.py lines 109-111); recv raises on a socket that
\* was closed.
ThreadReceive(h, answered) ==
    /\ hpc[h] = "recv"
    /\ IF answered /\ ~IsClosed(harg[h].node_socket)
       THEN /\ IF harg[h].node \in sockets
               THEN /\ sockets' = sockets \ {harg[h].node}
                    /\ netlog' = Append(netlog,
                                        [node |-> harg[h].node,
                                         event |-> "closed", thread |-> h,
                                         socket |-> SocketOf(harg[h].node)])
               ELSE UNCHANGED <<sockets, netlog>>
            /\ ThreadAdvance(h, harg[h])
       ELSE /\ ThreadNote(h)
            /\ UNCHANGED <<sockets, netlog>>
    /\ UNCHANGED <<chain, pending, difficulty, mining, peers, now, op, why,
                   ret, resp, outbox, mpc, new_block, bpc, bidx,
                   nodes_to_remove, bstart>>

\* Lines 567-569: the nodes the thread noted leave network_nodes.
ThreadEvict(h) ==
    /\ hpc[h] = "remove_network_nodes"
    /\ peers' = RemoveNetworkNodes(peers, harg[h].nodes_to_remove)
    /\ hpc' = [hpc EXCEPT ![h] = "idle"]
    /\ harg' = [harg EXCEPT ![h] = NoBlock]
    /\ UNCHANGED <<chain, pending, difficulty, mining, now, op, why,
                   ret, resp, outbox, mpc, new_block, broadcasting>>

\* A node that learns of peers and whose handler threads then broadcast,
\* each thread once.
SharedSocketNext ==
    \/ /\ netlog = <<>>
       /\ \E n \in GossipPool : HandleBroadcastedNewNode(n)
    \/ \E h \in Handlers, m \in ThreadMessages : ThreadBroadcastStart(h, m)
    \/ \E h \in Handlers : ThreadIsConnected(h)
    \/ \E h \in Handlers, connected \in BOOLEAN : ThreadConnect(h, connected)
    \/ \E h \in Handlers : ThreadGetNodeSocket(h)
    \/ \E h \in Handlers, sent \in BOOLEAN : ThreadSend(h, sent)
    \/ \E h \in Handlers, answered \in BOOLEAN : ThreadReceive(h, answered)
    \/ \E h \in Handlers : ThreadEvict(h)

SharedSocketSpec == Init /\ [][SharedSocketNext]_vars

\* C39: each message of concurrently broadcasting threads travels on its
\* own connection: no two requests are written to the same socket, and no
\* thread closes a socket that another thread is writing to or reading
\* from.
C39_OwnConnectionPerMessage ==
    /\ \A i, j \in 1..Len(netlog) :
          (/\ netlog[i].event = "sent" /\ netlog[j].event = "sent"
           /\ netlog[i].socket = netlog[j].socket) => i = j
    /\ \A h \in Handlers :
          hpc[h] \in {"sendall", "recv"}
              => ~\E i \in 1..Len(netlog) :
                     /\ netlog[i].event = "closed"
                     /\ netlog[i].socket = harg[h].node_socket
                     /\ netlog[i].thread # h

====
